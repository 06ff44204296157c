---------------------------- MODULE SenderProofs ----------------------------
(***************************************************************************)
(* The sending half of a TCP connection, for every size of the buffer, the *)
(* segments, the stream and the sequence numbers.                          *)
(***************************************************************************)
EXTENDS Sender, SequenceTheorems, WellFoundedInduction, TLAPS

-----------------------------------------------------------------------------
(* Arithmetic modulo n, the range of sequence numbers.                     *)

LEMMA ModType ==
  ASSUME NEW n \in Nat, n > 0, NEW a \in Int
  PROVE  a % n \in Int /\ 0 <= a % n /\ a % n < n
  OBVIOUS

\* The remainder, and that it is the only one.
LEMMA ModOf ==
  ASSUME NEW n \in Nat, n > 0, NEW a \in Int
  PROVE  \E q \in Int : a = n * q + (a % n)
<1>1. a \div n \in Int
  OBVIOUS
<1>2. a = n * (a \div n) + (a % n)
  OBVIOUS
<1> QED BY <1>1, <1>2, Zenon

LEMMA Multiple ==
  ASSUME NEW n \in Nat, n > 0, NEW p \in Int, NEW q \in Int, NEW r \in Int, NEW s \in Int,
         0 <= r, r < n, 0 <= s, s < n, n * p + r = n * q + s
  PROVE  r = s
<1>1. n * (p - q) = s - r
  OBVIOUS
<1> DEFINE d == p - q
<1>2. d \in Int /\ n * d = s - r
  BY <1>1
<1> HIDE DEF d
<1>3. ~(d >= 1)
  <2> SUFFICES ASSUME d >= 1 PROVE FALSE
    BY Zenon
  <2>1. n * d >= n
    BY <1>2
  <2> QED BY <1>2, <2>1
<1>4. ~(d <= -1)
  <2> SUFFICES ASSUME d <= -1 PROVE FALSE
    BY Zenon
  <2>1. n * d <= -n
    BY <1>2
  <2> QED BY <1>2, <2>1
<1>5. d = 0
  BY <1>2, <1>3, <1>4
<1> QED BY <1>2, <1>5

LEMMA ModUnique ==
  ASSUME NEW n \in Nat, n > 0, NEW a \in Int, NEW q \in Int, NEW r \in Int,
         0 <= r, r < n, a = n * q + r
  PROVE  a % n = r
<1>1. a \in Int
  BY Zenon
<1>2. PICK p \in Int : a = n * p + (a % n)
  BY <1>1, ModOf, Zenon
<1>3. a % n \in Int /\ 0 <= a % n /\ a % n < n
  BY <1>1
<1>4. a % n = r
  <2> DEFINE s == a % n
  <2>1. n * p + s = n * q + r
    BY <1>2, Zenon
  <2> HIDE DEF s
  <2>2. s \in Int /\ 0 <= s /\ s < n
    BY <1>3, Zenon DEF s
  <2>3. s = r
    BY <2>1, <2>2, Multiple, Zenon
  <2> QED BY <2>3, Zenon DEF s
<1> QED BY <1>4, Zenon

\* Indices may be reduced before a step, or after it.
LEMMA ModPlus ==
  ASSUME NEW n \in Nat, n > 0, NEW a \in Int, NEW b \in Int
  PROVE  ((a % n) + b) % n = (a + b) % n
<1>1. PICK p \in Int : a = n * p + (a % n)
  BY ModOf, Zenon
<1> DEFINE c == (a % n) + b
<1>2. c \in Int
  OBVIOUS
<1>3. PICK q \in Int : c = n * q + (c % n)
  BY <1>2, ModOf, Zenon
<1> DEFINE r == c % n
<1>4. r \in Int /\ 0 <= r /\ r < n
  BY <1>2
<1>5. a + b = n * p + c
  BY <1>1
<1> HIDE DEF c
<1>6. c = n * q + r
  BY <1>3, Zenon
<1> HIDE DEF r
<1>7. a + b = n * (p + q) + r
  BY <1>2, <1>4, <1>5, <1>6
<1>8. (a + b) % n = r
  <2>1. a + b \in Int /\ p + q \in Int
    OBVIOUS
  <2> QED BY <1>4, <1>7, <2>1, ModUnique, Zenon
<1> QED BY <1>8, Zenon DEF r, c

LEMMA ModMinus ==
  ASSUME NEW n \in Nat, n > 0, NEW a \in Int, NEW b \in Int
  PROVE  (a - (b % n)) % n = (a - b) % n
<1>1. PICK p \in Int : b = n * p + (b % n)
  BY ModOf, Zenon
<1> DEFINE c == a - (b % n)
<1>2. c \in Int
  OBVIOUS
<1>3. PICK q \in Int : c = n * q + (c % n)
  BY <1>2, ModOf, Zenon
<1> DEFINE r == c % n
<1>4. r \in Int /\ 0 <= r /\ r < n
  BY <1>2
<1>5. a - b = c - n * p
  BY <1>1
<1> HIDE DEF c
<1>6. c = n * q + r
  BY <1>3, Zenon
<1> HIDE DEF r
<1>7. a - b = n * (q - p) + r
  BY <1>2, <1>4, <1>5, <1>6
<1>8. (a - b) % n = r
  <2>1. a - b \in Int /\ q - p \in Int
    OBVIOUS
  <2> QED BY <1>4, <1>7, <2>1, ModUnique, Zenon
<1> QED BY <1>8, Zenon DEF r, c

LEMMA ModSmall ==
  ASSUME NEW n \in Nat, n > 0, NEW a \in Int, 0 <= a, a < n
  PROVE  a % n = a
  OBVIOUS

LEMMA ModWrap ==
  ASSUME NEW n \in Nat, n > 0, NEW a \in Int
  PROVE  (a + n) % n = a % n
<1>1. PICK p \in Int : a = n * p + (a % n)
  BY ModOf, Zenon
<1> DEFINE r == a % n
<1>2. r \in Int /\ 0 <= r /\ r < n
  OBVIOUS
<1>3. a = n * p + r
  BY <1>1, Zenon
<1> HIDE DEF r
<1>4. a + n = n * (p + 1) + r
  BY <1>2, <1>3
<1>5. (a + n) % n = r
  <2>1. a + n \in Int /\ p + 1 \in Int
    OBVIOUS
  <2> QED BY <1>2, <1>4, <2>1, ModUnique, Zenon
<1> QED BY <1>5, Zenon DEF r


\* The least element of a set of numbers, which stands for induction.
LEMMA LeastNumber ==
  ASSUME NEW T, T \subseteq Nat, T # {}
  PROVE  \E m \in T : \A k \in T : m <= k
<1>1. PICK m \in T : \A y \in T : ~(<<y, m>> \in OpToRel(<, Nat))
  BY NatLessThanWellFounded, WFMin, Zenon
<1>2. ASSUME NEW k \in T, k < m PROVE <<k, m>> \in OpToRel(<, Nat)
  BY <1>2 DEF OpToRel
<1>3. \A k \in T : ~(k < m)
  BY <1>1, <1>2, Zenon
<1>4. \A k \in T : m <= k
  BY <1>3
<1> QED BY <1>4, Zenon

-----------------------------------------------------------------------------
(* Pieces of the written stream.                                           *)

LEMMA PosType ==
  ASSUME NEW a \in Nat, NEW b \in Nat, a <= b
  PROVE  /\ Write!Positions(a, b) \in Seq(Int)
         /\ Len(Write!Positions(a, b)) = b - a
         /\ \A i \in 1 .. b - a : Write!Positions(a, b)[i] = a + i - 1
  BY DEF Write!Positions

InOrder(a, b, c) == a \in Nat /\ b \in Nat /\ c \in Nat /\ a <= b /\ b <= c

LEMMA PosConcat ==
  ASSUME NEW a, NEW b, NEW c, InOrder(a, b, c)
  PROVE  Write!Positions(a, b) \o Write!Positions(b, c) = Write!Positions(a, c)
<1>0. a \in Nat /\ b \in Nat /\ c \in Nat /\ a <= b /\ b <= c /\ a <= c
  <2>1. a \in Nat /\ b \in Nat /\ c \in Nat /\ a <= b /\ b <= c
    BY Zenon DEF InOrder
  <2> QED BY <2>1
<1> DEFINE p == Write!Positions(a, b)
           q == Write!Positions(b, c)
           r == Write!Positions(a, c)
<1>1. p \in Seq(Int) /\ Len(p) = b - a /\ \A i \in 1 .. b - a : p[i] = a + i - 1
  BY <1>0, PosType, Zenon
<1>2. q \in Seq(Int) /\ Len(q) = c - b /\ \A i \in 1 .. c - b : q[i] = b + i - 1
  BY <1>0, PosType, Zenon
<1>3. r \in Seq(Int) /\ Len(r) = c - a /\ \A i \in 1 .. c - a : r[i] = a + i - 1
  BY <1>0, PosType, Zenon
<1> HIDE DEF p, q, r
<1> DEFINE t == p \o q
<1>4. /\ t \in Seq(Int) /\ Len(t) = Len(p) + Len(q)
      /\ \A i \in 1 .. Len(p) + Len(q) : t[i] = IF i <= Len(p) THEN p[i] ELSE q[i - Len(p)]
  BY <1>1, <1>2, ConcatProperties, Zenon
<1> HIDE DEF t
<1>5. Len(t) = Len(r) /\ \A i \in 1 .. Len(t) : t[i] = r[i]
  <2>1. Len(t) = c - a
    <3>1. Len(p) = b - a /\ Len(q) = c - b /\ Len(t) = Len(p) + Len(q)
      BY <1>1, <1>2, <1>4, Zenon
    <3> QED BY <1>0, <3>1
  <2>2. ASSUME NEW i \in 1 .. c - a PROVE t[i] = a + i - 1
    <3> DEFINE j == i - (b - a)
    <3>1. i \in 1 .. (b - a) + (c - b) /\ (i <= b - a => i \in 1 .. b - a)
          /\ (~(i <= b - a) => j \in 1 .. c - b) /\ b + j - 1 = a + i - 1
      BY <1>0
    <3>2. t[i] = IF i <= b - a THEN p[i] ELSE q[j]
      BY <1>1, <1>2, <1>4, <3>1, Zenon
    <3> HIDE DEF j
    <3> QED BY <1>1, <1>2, <3>1, <3>2, Zenon
  <2> QED BY <1>3, <2>1, <2>2, Zenon
<1>6. t = r
  BY <1>3, <1>4, <1>5, SeqEqual, Zenon
<1> QED BY <1>6, Zenon DEF p, q, r, t

LEMMA PosCut ==
  ASSUME NEW a, NEW b, NEW c, InOrder(a, b, c)
  PROVE  SubSeq(Write!Positions(a, c), b - a + 1, c - a) = Write!Positions(b, c)
<1>0. a \in Nat /\ b \in Nat /\ c \in Nat /\ a <= b /\ b <= c /\ a <= c
  <2>1. a \in Nat /\ b \in Nat /\ c \in Nat /\ a <= b /\ b <= c
    BY Zenon DEF InOrder
  <2> QED BY <2>1
<1> DEFINE q == Write!Positions(b, c)
           r == Write!Positions(a, c)
           s == SubSeq(r, b - a + 1, c - a)
<1>2. q \in Seq(Int) /\ Len(q) = c - b /\ \A i \in 1 .. c - b : q[i] = b + i - 1
  BY <1>0, PosType, Zenon
<1>3. r \in Seq(Int) /\ Len(r) = c - a /\ \A i \in 1 .. c - a : r[i] = a + i - 1
  BY <1>0, PosType, Zenon
<1> HIDE DEF q, r
<1>4. s \in Seq(Int) /\ Len(s) = Len(q)
  BY <1>0, <1>2, <1>3
<1>5. \A i \in 1 .. Len(q) : s[i] = q[i]
  BY <1>0, <1>2, <1>3
<1>6. s = q
  BY <1>2, <1>4, <1>5, SMTT(30)
<1> QED BY <1>6 DEF q, r

-----------------------------------------------------------------------------
(* Sequence numbers.                                                       *)

SeqOf(x) == (Isn + x) % Write!Mod

LEMMA ModNumber ==
  /\ Write!Mod \in Nat /\ Write!Mod > 0 /\ Isn \in 0 .. Write!Mod - 1
  /\ 2 * TxBuf < Write!Mod /\ TxBuf < Write!Mod \div 2 /\ TxBuf \in Nat /\ TxBuf > 0
<1>1. Write!Mod \in Nat /\ TxBuf < Write!Mod \div 2 /\ Isn \in 0 .. Write!Mod - 1
  BY SenderAssumption, Zenon DEF Write!Mod
<1> QED BY <1>1, SenderAssumption

LEMMA ZeroMod == 0 % Write!Mod = 0
<1> DEFINE m == Write!Mod
<1>1. m \in Nat /\ m > 0
  BY ModNumber, Zenon
<1> HIDE DEF m
<1>2. 0 % m = 0
  BY <1>1
<1> QED BY <1>2, Zenon DEF m

LEMMA SeqType ==
  ASSUME NEW x \in Nat
  PROVE  SeqOf(x) \in 0 .. Write!Mod - 1
  BY ModNumber, ModType DEF SeqOf

\* The difference of two sequence numbers is that of the positions.
LEMMA SeqDiff ==
  ASSUME NEW x \in Nat, NEW y \in Nat
  PROVE  (SeqOf(x) - SeqOf(y)) % Write!Mod = (x - y) % Write!Mod
<1> DEFINE m == Write!Mod
           a == Isn + x
           b == Isn + y
<1>1. m \in Nat /\ m > 0 /\ a \in Int /\ b \in Int /\ a - b = x - y
  BY ModNumber
<1>2. (b % m) \in Int /\ (a % m) \in Int
  BY <1>1, ModType
<1> HIDE DEF m, a, b
<1>3. ((a % m) - (b % m)) % m = ((a % m) - b) % m
  BY <1>1, <1>2, ModMinus, Zenon
<1> DEFINE e == -b
<1>4. e \in Int /\ (a % m) + e = (a % m) - b /\ a + e = x - y
  BY <1>1, <1>2
<1> HIDE DEF e
<1>5. ((a % m) + e) % m = (a + e) % m
  BY <1>1, <1>4, ModPlus, Zenon
<1>6. ((a % m) - (b % m)) % m = (x - y) % m
  BY <1>3, <1>4, <1>5, Zenon
<1> QED BY <1>6 DEF SeqOf, m, a, b

\* Ahead by less than the range, and behind by at most the range.
LEMMA SeqAhead ==
  ASSUME NEW x \in Nat, NEW y \in Nat, y <= x, x - y < Write!Mod
  PROVE  (SeqOf(x) - SeqOf(y)) % Write!Mod = x - y
<1> DEFINE m == Write!Mod
           d == x - y
<1>1. m \in Nat /\ m > 0 /\ d \in Int /\ 0 <= d /\ d < m
  BY ModNumber
<1> HIDE DEF m, d
<1>2. d % m = d
  BY <1>1, ModSmall
<1>3. (SeqOf(x) - SeqOf(y)) % m = d % m
  BY SeqDiff DEF m, d
<1> QED BY <1>2, <1>3 DEF m, d

LEMMA SeqBehind ==
  ASSUME NEW x \in Nat, NEW y \in Nat, x < y, y - x <= Write!Mod
  PROVE  (SeqOf(x) - SeqOf(y)) % Write!Mod = x - y + Write!Mod
<1> DEFINE m == Write!Mod
           d == x - y
<1>1. m \in Nat /\ m > 0 /\ d \in Int /\ 0 <= d + m /\ d + m < m
  BY ModNumber
<1> HIDE DEF m, d
<1>2. (d + m) % m = d % m /\ (d + m) % m = d + m
  BY <1>1, ModWrap, ModSmall
<1>3. (SeqOf(x) - SeqOf(y)) % m = d % m
  BY SeqDiff DEF m, d
<1> QED BY <1>2, <1>3 DEF m, d

LEMMA SeqPlus ==
  ASSUME NEW x \in Nat, NEW n \in Int
  PROVE  (SeqOf(x) + n) % Write!Mod = (Isn + x + n) % Write!Mod
<1> DEFINE m == Write!Mod
           a == Isn + x
<1>1. m \in Nat /\ m > 0 /\ a \in Int
  BY ModNumber
<1> HIDE DEF m, a
<1>2. ((a % m) + n) % m = (a + n) % m
  BY <1>1, ModPlus
<1> QED BY <1>2 DEF m, a, SeqOf

-----------------------------------------------------------------------------
(* The sender.  A connection whose program has written wr bytes has sent   *)
(* the bytes before wr - Len(sndb) and has had them acknowledged; sndb     *)
(* holds the rest, and what is in flight is in it.                         *)

TxSeqs == 0 .. Write!Mod - 1

TxRec ==
  [state : {"ESTABLISHED", "FREE"}, una : TxSeqs, nxt : TxSeqs, sndb : Seq(Int), win : Nat,
   cwnd : Nat \ {0}, ssthresh : Nat \ {0}, dupacks : Nat, fast : {"no", "yes"},
   recover : TxSeqs, rto : {"on", "off"}, tries : Nat, persist : {"on", "off"}]

TxPeer == [stream : Seq(Int), eof : {"no"}, fins : {0}]
TxWorld == [c : TxRec, p : TxPeer, stop : {"no", "yes"}]

\* What is in flight has a timer, unless the connection was given up.
Timed(c) == Write!InFlight(c) > 0 => c.rto = "on" \/ c.state = "FREE"

ConnGood(c, wr) ==
  /\ c \in TxRec
  /\ Len(c.sndb) <= TxBuf /\ Len(c.sndb) <= wr
  /\ c.sndb = Write!Positions(wr - Len(c.sndb), wr)
  /\ c.una = SeqOf(wr - Len(c.sndb))
  /\ Write!InFlight(c) <= Len(c.sndb)
  /\ Timed(c)

\* The peer has a beginning of the stream, no less than it acknowledged.
PeerGood(p, from, wr) ==
  /\ p \in TxPeer
  /\ p.stream = Write!Positions(0, Len(p.stream))
  /\ from <= Len(p.stream) /\ Len(p.stream) <= wr

Good(w, wr) ==
  /\ w \in TxWorld
  /\ ConnGood(w.c, wr)
  /\ PeerGood(w.p, wr - Len(w.c.sndb), wr)

LEMMA TxFields ==
  ASSUME NEW c \in TxRec
  PROVE  /\ c.una \in TxSeqs /\ c.nxt \in TxSeqs /\ c.sndb \in Seq(Int) /\ Len(c.sndb) \in Nat
         /\ c.win \in Nat /\ c.cwnd \in Nat \ {0} /\ c.ssthresh \in Nat \ {0} /\ c.dupacks \in Nat
         /\ c.state \in {"ESTABLISHED", "FREE"} /\ c.rto \in {"on", "off"} /\ c.tries \in Nat
  BY DEF TxRec

LEMMA FlightType ==
  ASSUME NEW c \in TxRec
  PROVE  Write!InFlight(c) \in Nat /\ Write!InFlight(c) < Write!Mod
<1>1. c.nxt - c.una \in Int
  BY ModNumber DEF TxRec, TxSeqs
<1> QED BY <1>1, ModNumber, ModType DEF Write!InFlight

\* snd_nxt is as far from the beginning of sndb as what is in flight.
LEMMA NextAt ==
  ASSUME NEW wr \in Nat, NEW c, ConnGood(c, wr)
  PROVE  c.nxt = SeqOf(wr - Len(c.sndb) + Write!InFlight(c))
<1> DEFINE l == Len(c.sndb)
           x == wr - l
           f == Write!InFlight(c)
           u == c.una
           n == c.nxt
           d == n - u
<1>1. c \in TxRec /\ u \in 0 .. Write!Mod - 1 /\ n \in 0 .. Write!Mod - 1 /\ l \in Nat
  BY TxFields, Zenon DEF ConnGood, TxSeqs
<1>2. l <= wr /\ u = SeqOf(x) /\ f = d % Write!Mod
  BY Zenon DEF ConnGood, Write!InFlight
<1>3. f \in Nat
  BY <1>1, FlightType, Zenon
<1>4. Write!Mod \in Nat /\ Write!Mod > 0 /\ Isn \in Nat
  BY ModNumber
<1> HIDE DEF l, u, n, f
<1>5. x \in Nat /\ d \in Int /\ f \in Int /\ u \in Int /\ d + u = n /\ Isn + x + f = Isn + (x + f)
  BY <1>1, <1>2, <1>3, <1>4
<1>6. n % Write!Mod = n
  BY <1>1, <1>4, ModSmall
<1> HIDE DEF x, d
<1>7. (SeqOf(x) + f) % Write!Mod = (Isn + x + f) % Write!Mod
  BY <1>5, SeqPlus, Zenon
<1>8. ((d % Write!Mod) + u) % Write!Mod = (d + u) % Write!Mod
  BY <1>4, <1>5, ModPlus, Zenon
<1>9. f + u = u + f
  BY <1>3, <1>5
<1>10. n = (Isn + (x + f)) % Write!Mod
  BY <1>2, <1>5, <1>6, <1>7, <1>8, <1>9, Zenon
<1> QED BY <1>10, Zenon DEF SeqOf, x, f, n, l

\* What does not touch the numbers, sndb or a running timer keeps the invariant.
LEMMA ConnKept ==
  ASSUME NEW wr \in Nat, NEW c, ConnGood(c, wr), NEW d \in TxRec,
         d.una = c.una, d.nxt = c.nxt, d.sndb = c.sndb,
         (d.rto = c.rto /\ d.state = c.state) \/ d.rto = "on"
  PROVE  ConnGood(d, wr) /\ Write!InFlight(d) = Write!InFlight(c)
<1>1. Write!InFlight(d) = Write!InFlight(c)
  BY Zenon DEF Write!InFlight
<1> QED BY <1>1, Zenon DEF ConnGood, Timed

\* The numbers of a connection.
LEMMA ConnNumbers ==
  ASSUME NEW wr \in Nat, NEW c, ConnGood(c, wr)
  PROVE  /\ c \in TxRec /\ Len(c.sndb) \in Nat /\ Len(c.sndb) <= TxBuf /\ Len(c.sndb) <= wr
         /\ wr - Len(c.sndb) \in Nat /\ Write!InFlight(c) \in Nat
         /\ Write!InFlight(c) <= Len(c.sndb) /\ Timed(c)
         /\ c.sndb = Write!Positions(wr - Len(c.sndb), wr) /\ c.una = SeqOf(wr - Len(c.sndb))
         /\ c.nxt = SeqOf(wr - Len(c.sndb) + Write!InFlight(c))
<1> DEFINE l == Len(c.sndb)
<1>1. c \in TxRec /\ l <= wr
  BY Zenon DEF ConnGood
<1>2. l \in Nat
  BY <1>1, TxFields, Zenon
<1> HIDE DEF l
<1>3. wr - l \in Nat
  BY <1>1, <1>2
<1> QED BY <1>1, <1>2, <1>3, FlightType, NextAt, Zenon DEF l, ConnGood

\* n more bytes of sndb are sent.
IsSent(wr, c, n, d) ==
  /\ wr \in Nat /\ ConnGood(c, wr) /\ n \in Nat /\ Write!InFlight(c) + n <= Len(c.sndb)
  /\ d \in TxRec /\ d.una = c.una /\ d.nxt = (c.nxt + n) % Write!Mod
  /\ d.sndb = c.sndb /\ d.rto = "on"

LEMMA ConnSent ==
  ASSUME NEW wr, NEW c, NEW n, NEW d, IsSent(wr, c, n, d)
  PROVE  ConnGood(d, wr) /\ Write!InFlight(d) = Write!InFlight(c) + n
<1> DEFINE l == Len(c.sndb)
           x == wr - l
           f == Write!InFlight(c)
<1>0. wr \in Nat /\ n \in Nat /\ ConnGood(c, wr) /\ f + n <= l
  BY Zenon DEF IsSent
<1>1. /\ l \in Nat /\ l <= TxBuf /\ l <= wr /\ f \in Nat /\ x \in Nat
      /\ c.una = SeqOf(x) /\ c.nxt = SeqOf(x + f) /\ c.sndb = Write!Positions(x, wr)
  BY <1>0, ConnNumbers, Zenon
<1>2. /\ d \in TxRec /\ d.una = SeqOf(x) /\ d.nxt = (SeqOf(x + f) + n) % Write!Mod
      /\ d.sndb = c.sndb /\ d.rto = "on"
  BY <1>1, Zenon DEF IsSent
<1> HIDE DEF l, f
<1>3. /\ x + f \in Nat /\ x + f + n \in Nat /\ x <= x + f + n /\ (x + f + n) - x = f + n
      /\ f + n < Write!Mod /\ n \in Int /\ Isn + (x + f) + n = Isn + (x + f + n)
  BY <1>0, <1>1, ModNumber
<1> HIDE DEF x
<1>4. (SeqOf(x + f) + n) % Write!Mod = (Isn + (x + f) + n) % Write!Mod
  BY <1>3, SeqPlus, Zenon
<1>6. d.nxt = SeqOf(x + f + n)
  BY <1>2, <1>3, <1>4, Zenon DEF SeqOf
<1>7. (SeqOf(x + f + n) - SeqOf(x)) % Write!Mod = f + n
  <2> DEFINE y == x + f + n
  <2>1. y \in Nat /\ x <= y /\ y - x < Write!Mod /\ y - x = f + n
    BY <1>3, Zenon
  <2> HIDE DEF y
  <2>2. (SeqOf(y) - SeqOf(x)) % Write!Mod = y - x
    BY <1>1, <2>1, SeqAhead, Zenon
  <2> QED BY <2>1, <2>2, Zenon DEF y
<1>8. Write!InFlight(d) = f + n
  BY <1>2, <1>6, <1>7, Zenon DEF Write!InFlight
<1> QED BY <1>0, <1>1, <1>2, <1>8, Zenon DEF ConnGood, Timed, f, l, x

\* The first k bytes of sndb are acknowledged.
IsAcked(wr, c, k, d) ==
  /\ wr \in Nat /\ ConnGood(c, wr) /\ k \in Nat /\ k <= Write!InFlight(c)
  /\ d \in TxRec /\ d.una = SeqOf(wr - Len(c.sndb) + k) /\ d.nxt = c.nxt
  /\ d.sndb = SubSeq(c.sndb, k + 1, Len(c.sndb)) /\ d.rto = c.rto /\ d.state = c.state

LEMMA ConnAcked ==
  ASSUME NEW wr, NEW c, NEW k, NEW d, IsAcked(wr, c, k, d)
  PROVE  ConnGood(d, wr) /\ wr - Len(d.sndb) = wr - Len(c.sndb) + k
<1> DEFINE l == Len(c.sndb)
           x == wr - l
           f == Write!InFlight(c)
           e == Len(d.sndb)
<1>0. /\ wr \in Nat /\ ConnGood(c, wr) /\ k \in Nat /\ k <= f
      /\ d \in TxRec /\ d.una = SeqOf(x + k) /\ d.nxt = c.nxt
      /\ d.sndb = SubSeq(c.sndb, k + 1, l) /\ d.rto = c.rto /\ d.state = c.state
  BY Zenon DEF IsAcked
<1>1. /\ wr \in Nat /\ k \in Nat /\ k <= f
      /\ l \in Nat /\ l <= TxBuf /\ l <= wr /\ f <= l /\ f \in Nat /\ x \in Nat
  BY <1>0, ConnNumbers, Zenon
<1>2. /\ c.sndb = Write!Positions(x, wr) /\ c.nxt = SeqOf(x + f)
      /\ (f > 0 => c.rto = "on" \/ c.state = "FREE")
  BY <1>0, ConnNumbers, Zenon DEF Timed
<1> HIDE DEF l, f, e
<1>3. /\ x + f \in Nat /\ x + k \in Nat /\ x <= x + k /\ x + k <= wr /\ x + k <= x + f
      /\ (x + f) - (x + k) = f - k /\ f - k < Write!Mod /\ (x + k) - x = k /\ wr - x = l
  BY <1>1, ModNumber
<1> HIDE DEF x
<1>4. d.sndb = Write!Positions(x + k, wr)
  <2>1. SubSeq(Write!Positions(x, wr), (x + k) - x + 1, wr - x) = Write!Positions(x + k, wr)
    <3> DEFINE y == x + k
    <3>1. y \in Nat /\ x <= y /\ y <= wr
      BY <1>3, Zenon
    <3> HIDE DEF y
    <3>2. SubSeq(Write!Positions(x, wr), y - x + 1, wr - x) = Write!Positions(y, wr)
      <4>1. InOrder(x, y, wr)
        BY <1>1, <3>1, Zenon DEF InOrder
      <4> QED BY <4>1, PosCut, Zenon
    <3> QED BY <3>2, Zenon DEF y
  <2> QED BY <1>0, <1>2, <1>3, <2>1, Zenon
<1>5. e = wr - (x + k)
  BY <1>1, <1>3, <1>4, PosType, Zenon DEF e
<1>6. wr - e = x + k /\ e <= TxBuf /\ e <= wr /\ f - k <= e /\ (f - k > 0 => f > 0)
  BY <1>1, <1>3, <1>5, ModNumber
<1>7. (SeqOf(x + f) - SeqOf(x + k)) % Write!Mod = f - k
  <2> DEFINE y == x + k
             z == x + f
  <2>1. y \in Nat /\ z \in Nat /\ y <= z /\ z - y < Write!Mod /\ z - y = f - k
    BY <1>3, Zenon
  <2> HIDE DEF y, z
  <2>2. (SeqOf(z) - SeqOf(y)) % Write!Mod = z - y
    BY <2>1, SeqAhead, Zenon
  <2> QED BY <2>1, <2>2, Zenon DEF y, z
<1>8. Write!InFlight(d) = f - k
  BY <1>0, <1>2, <1>7, Zenon DEF Write!InFlight
<1>11. ConnGood(d, wr)
  BY <1>0, <1>2, <1>4, <1>6, <1>8, Zenon DEF ConnGood, Timed, e
<1> QED BY <1>6, <1>11, Zenon DEF x, e, l

\* The program writes n bytes.
LEMMA ConnWritten ==
  ASSUME NEW wr \in Nat, NEW c, ConnGood(c, wr), NEW n \in Nat, Len(c.sndb) + n <= TxBuf,
         NEW d \in TxRec, d.una = c.una, d.nxt = c.nxt, d.rto = c.rto, d.state = c.state,
         d.sndb = c.sndb \o Write!Positions(wr, wr + n)
  PROVE  ConnGood(d, wr + n) /\ (wr + n) - Len(d.sndb) = wr - Len(c.sndb)
<1> DEFINE l == Len(c.sndb)
           x == wr - l
           f == Write!InFlight(c)
           e == Len(d.sndb)
<1>1. /\ l \in Nat /\ l <= TxBuf /\ l <= wr /\ f <= l /\ f \in Nat /\ x \in Nat /\ l + n <= TxBuf
  BY ConnNumbers, Zenon
<1>2. /\ c.sndb = Write!Positions(x, wr) /\ c.una = SeqOf(x) /\ Timed(c)
  BY ConnNumbers, Zenon
<1>3. Write!InFlight(d) = f
  BY Zenon DEF Write!InFlight
<1> HIDE DEF l, f, e
<1>4. x <= wr /\ wr + n \in Nat /\ wr <= wr + n /\ x <= wr + n
  BY <1>1
<1> HIDE DEF x
<1>5. d.sndb = Write!Positions(x, wr + n)
  <2>1. Write!Positions(x, wr) \o Write!Positions(wr, wr + n) = Write!Positions(x, wr + n)
    <3>1. InOrder(x, wr, wr + n)
      BY <1>1, <1>4, Zenon DEF InOrder
    <3> QED BY <3>1, PosConcat, Zenon
  <2> QED BY <1>2, <2>1, Zenon
<1> DEFINE z == wr + n
<1>6. e = z - x
  <2>1. z \in Nat /\ x <= z /\ d.sndb = Write!Positions(x, z)
    BY <1>4, <1>5, Zenon
  <2> HIDE DEF z
  <2> QED BY <1>1, <2>1, PosType, Zenon DEF e
<1>7. (wr + n) - e = x /\ e <= TxBuf /\ e <= wr + n /\ f <= e
  BY <1>1, <1>6, ModNumber DEF x
<1>8. ConnGood(d, wr + n)
  <2>1. d.sndb = Write!Positions(z - Len(d.sndb), z) /\ d.una = SeqOf(z - Len(d.sndb))
    <3>1. z - e = x
      BY <1>7, Zenon
    <3> HIDE DEF z
    <3>2. d.una = SeqOf(z - e)
      BY <1>2, <3>1, Zenon
    <3>3. d.sndb = Write!Positions(x, z)
      BY <1>5, Zenon DEF z
    <3>4. d.sndb = Write!Positions(z - e, z)
      BY <3>1, <3>3, Zenon
    <3> QED BY <3>2, <3>4, Zenon DEF e
  <2>2. Len(d.sndb) <= TxBuf /\ Len(d.sndb) <= z /\ Write!InFlight(d) <= Len(d.sndb)
    BY <1>3, <1>7, Zenon DEF e
  <2>3. Timed(d)
    BY <1>2, <1>3, Zenon DEF Timed, f
  <2> QED BY <2>1, <2>2, <2>3, Zenon DEF ConnGood
<1> QED BY <1>7, <1>8, Zenon DEF x, e, l

\* What Buffered() gives lies in the stream at its sequence number.
IsSlice(wr, c, from, n) ==
  wr \in Nat /\ ConnGood(c, wr) /\ from \in Nat /\ n \in Nat /\ from + n <= Len(c.sndb)

LEMMA BufferedIs ==
  ASSUME NEW wr, NEW c, NEW from, NEW n, IsSlice(wr, c, from, n)
  PROVE  Write!Buffered(c, from, n) =
           Write!Positions(wr - Len(c.sndb) + from, wr - Len(c.sndb) + from + n)
<1> DEFINE l == Len(c.sndb)
           x == wr - l
           b == c.sndb
<1>0. wr \in Nat /\ ConnGood(c, wr) /\ from \in Nat /\ n \in Nat /\ from + n <= l
  BY Zenon DEF IsSlice
<1>1. l \in Nat /\ x \in Nat /\ l <= wr /\ b = Write!Positions(x, wr)
  BY <1>0, ConnNumbers, Zenon
<1>2. Write!Buffered(c, from, n) =
        [i \in 1 .. n |-> IF from + i <= l THEN b[from + i] ELSE Write!Junk]
  BY Zenon DEF Write!Buffered
<1> HIDE DEF l, b
<1>3. x <= wr /\ wr - x = l /\ (x + from + n) - (x + from) = n
  BY <1>0, <1>1
<1> HIDE DEF x
<1>4. \A i \in 1 .. l : b[i] = x + i - 1
  BY <1>0, <1>1, <1>3, PosType, Zenon
<1>5. ASSUME NEW i \in 1 .. n PROVE from + i <= l /\ b[from + i] = (x + from) + i - 1
  <2>1. from + i <= l /\ from + i \in 1 .. l /\ x + (from + i) - 1 = (x + from) + i - 1
    BY <1>0, <1>1
  <2> QED BY <1>4, <2>1, Zenon
<1>6. Write!Buffered(c, from, n) = [i \in 1 .. n |-> (x + from) + i - 1]
  BY <1>2, <1>5, Zenon
<1>7. Write!Positions(x + from, x + from + n) = [i \in 1 .. n |-> (x + from) + i - 1]
  BY <1>3, Zenon DEF Write!Positions
<1> QED BY <1>6, <1>7, Zenon DEF x, l

\* A segment of n bytes at s that holds what the peer wants next, as
\* tcp_seq_diff() sees it, holds it in the stream.
Gap(r, s) == (SeqOf(r) - SeqOf(s)) % Write!Mod

\* The stream up to wr, acknowledged up to x and received up to r, and n bytes
\* of it from s on.
Placed(wr, x, r, s, n) ==
  /\ wr \in Nat /\ x \in Nat /\ r \in Nat /\ s \in Nat /\ n \in Nat
  /\ x <= s /\ s + n <= wr /\ x <= r /\ r <= wr /\ wr - x <= TxBuf

LEMMA PutOffset ==
  ASSUME NEW wr, NEW x, NEW r, NEW s, NEW n, Placed(wr, x, r, s, n), Gap(r, s) < n
  PROVE  s <= r /\ r <= s + n /\ Gap(r, s) = r - s
<1> USE DEF Placed
<1> DEFINE off == Gap(r, s)
<1>0. off < n
  BY Zenon
<1>1. CASE s <= r
  <2>1. r - s < Write!Mod
    BY <1>1, ModNumber
  <2>2. off = r - s
    BY <1>1, <2>1, SeqAhead, Zenon DEF Gap
  <2> HIDE DEF off
  <2>3. r <= s + n
    BY <1>0, <2>2
  <2> QED BY <1>1, <2>2, <2>3, Zenon DEF off
<1>2. CASE r < s
  <2>1. s - r <= Write!Mod /\ ~(r - s + Write!Mod < n)
    BY <1>2, ModNumber
  <2>2. off = r - s + Write!Mod
    BY <1>2, <2>1, SeqBehind, Zenon DEF Gap
  <2> HIDE DEF off
  <2> QED BY <1>0, <2>1, <2>2, Zenon
<1>3. s <= r \/ r < s
  OBVIOUS
<1> QED BY <1>1, <1>2, <1>3, Zenon

LEMMA WorldFields ==
  ASSUME NEW w \in TxWorld
  PROVE  /\ w.c \in TxRec /\ w.p \in TxPeer /\ w.stop \in {"no", "yes"}
         /\ w.p.stream \in Seq(Int) /\ Len(w.p.stream) \in Nat /\ w.p.eof = "no"
  BY DEF TxWorld, TxPeer

\* The numbers of a connection and its peer.
LEMMA GoodNumbers ==
  ASSUME NEW wr \in Nat, NEW w, Good(w, wr)
  PROVE  /\ w \in TxWorld /\ w.c \in TxRec /\ w.p \in TxPeer /\ ConnGood(w.c, wr)
         /\ Len(w.c.sndb) \in Nat /\ Len(w.c.sndb) <= TxBuf /\ Len(w.c.sndb) <= wr
         /\ wr - Len(w.c.sndb) \in Nat /\ Len(w.p.stream) \in Nat
         /\ w.p.stream = Write!Positions(0, Len(w.p.stream))
         /\ wr - Len(w.c.sndb) <= Len(w.p.stream) /\ Len(w.p.stream) <= wr
<1>1. w \in TxWorld /\ ConnGood(w.c, wr) /\ PeerGood(w.p, wr - Len(w.c.sndb), wr)
  BY Zenon DEF Good
<1> QED BY <1>1, WorldFields, ConnNumbers, Zenon DEF PeerGood

\* A segment with bytes of the stream leaves the peer with a beginning of it,
\* whatever becomes of the segment.
IsSegment(wr, w, s, n) ==
  /\ wr \in Nat /\ Good(w, wr) /\ s \in Nat /\ n \in Nat
  /\ wr - Len(w.c.sndb) <= s /\ s + n <= wr

LEMMA PutGood ==
  ASSUME NEW wr, NEW w, NEW s, NEW n, IsSegment(wr, w, s, n), NEW out, NEW v,
         v = Write!Put(w, SeqOf(s), Write!Positions(s, s + n), out)
  PROVE  Good(v, wr) /\ v.c = w.c /\ v.stop = w.stop
<1> DEFINE data == Write!Positions(s, s + n)
           l == Len(w.c.sndb)
           x == wr - l
           r == Len(w.p.stream)
           z == s + n
           off == Gap(r, s)
           t == Write!Positions(0, z)
<1>0. wr \in Nat /\ Good(w, wr) /\ s \in Nat /\ n \in Nat /\ x <= s /\ s + n <= wr
  BY Zenon DEF IsSegment
<1>1. /\ w \in TxWorld /\ l \in Nat /\ l <= TxBuf /\ l <= wr /\ x \in Nat /\ r \in Nat
      /\ x <= r /\ r <= wr /\ w.p.stream = Write!Positions(0, r)
  BY <1>0, GoodNumbers, Zenon
<1>3. \/ v = w
      \/ off < Len(data) /\ v = [w EXCEPT !.p.stream = @ \o SubSeq(data, off + 1, Len(data))]
  BY Zenon DEF Write!Put, SeqOf, Gap
<1> HIDE DEF r, l
<1>4. z \in Nat /\ s <= z /\ z <= wr /\ z - s = n /\ wr - x <= TxBuf
  BY <1>0, <1>1
<1> HIDE DEF x
<1>5. Len(data) = n /\ t \in Seq(Int) /\ Len(t) = z
  <2>1. data = Write!Positions(s, z) /\ z - 0 = z /\ 0 \in Nat /\ 0 <= z
    BY <1>4
  <2> HIDE DEF z, data
  <2> QED BY <1>0, <1>4, <2>1, PosType, Zenon
<1>6. CASE v = w
  BY <1>0, <1>6, Zenon
<1>7. CASE off < Len(data) /\ v = [w EXCEPT !.p.stream = @ \o SubSeq(data, off + 1, Len(data))]
  <2>1. s <= r /\ r <= z /\ off = r - s
    <3>1. Gap(r, s) < n
      BY <1>5, <1>7, Zenon
    <3>2. Placed(wr, x, r, s, n)
      BY <1>0, <1>1, <1>4, Zenon DEF Placed
    <3>3. s <= r /\ r <= s + n /\ Gap(r, s) = r - s
      BY <3>1, <3>2, PutOffset, Zenon
    <3> QED BY <3>3, Zenon
  <2>2. data = Write!Positions(s, z)
    BY Zenon
  <2> HIDE DEF z, data, off, t
  <2>3. SubSeq(data, off + 1, Len(data)) = Write!Positions(r, z)
    <3>1. SubSeq(Write!Positions(s, z), r - s + 1, z - s) = Write!Positions(r, z)
      <4>1. InOrder(s, r, z)
        BY <1>0, <1>1, <1>4, <2>1, Zenon DEF InOrder
      <4> QED BY <4>1, PosCut, Zenon
    <3> QED BY <1>4, <1>5, <2>1, <2>2, <3>1, Zenon
  <2>4. Write!Positions(0, r) \o Write!Positions(r, z) = t
    <3>1. 0 \in Nat /\ 0 <= r
      BY <1>1
    <3>2. InOrder(0, r, z)
      BY <1>1, <1>4, <2>1, <3>1, Zenon DEF InOrder
    <3> QED BY <3>2, PosConcat, Zenon DEF t
  <2>6. v = [w EXCEPT !.p.stream = t]
    <3>1. w.p.stream \o SubSeq(data, off + 1, Len(data)) = t
      BY <1>1, <2>3, <2>4, Zenon
    <3> QED BY <1>7, <3>1, Zenon
  <2>7. /\ v \in TxWorld /\ v.c = w.c /\ v.stop = w.stop /\ v.p \in TxPeer /\ v.p.stream = t
    BY <1>1, <1>5, <2>6, Zenon DEF TxWorld, TxPeer
  <2>8. x <= z
    BY <1>0, <1>1, <1>4, <2>1
  <2>9. PeerGood(v.p, wr - Len(v.c.sndb), wr)
    <3>1. Len(v.p.stream) = z /\ v.p.stream = Write!Positions(0, z)
      BY <1>5, <2>7, Zenon DEF t
    <3>2. wr - Len(v.c.sndb) = x
      BY <2>7, Zenon DEF x, l
    <3> QED BY <1>4, <2>7, <2>8, <3>1, <3>2, Zenon DEF PeerGood
  <2>10. ConnGood(v.c, wr)
    BY <1>0, <2>7, GoodNumbers, Zenon
  <2> QED BY <2>7, <2>9, <2>10, Zenon DEF Good
<1> QED BY <1>3, <1>6, <1>7, Zenon

\* What tcp_xmit_pending() does to a connection: it may only move snd_nxt on,
\* inside the windows.
Moved(c, d) ==
  /\ d.state = c.state /\ d.una = c.una /\ d.sndb = c.sndb /\ d.win = c.win /\ d.cwnd = c.cwnd
  /\ d.nxt = c.nxt \/ Write!InFlight(d) <= Write!SendWindow(d)

LEMMA MovedTwice ==
  ASSUME NEW c, NEW d, NEW e, Moved(c, d), Moved(d, e)
  PROVE  Moved(c, e)
<1>1. CASE e.nxt = d.nxt
  BY <1>1, Zenon DEF Moved, Write!InFlight, Write!SendWindow
<1>2. CASE Write!InFlight(e) <= Write!SendWindow(e)
  BY <1>2, Zenon DEF Moved
<1> QED BY <1>1, <1>2, Zenon DEF Moved

LEMMA WindowType ==
  ASSUME NEW c \in TxRec
  PROVE  Write!SendWindow(c) \in Nat
<1> DEFINE a == c.win
           b == c.cwnd
<1>1. a \in Nat /\ b \in Nat \ {0} /\ Write!SendWindow(c) = IF a < b THEN a ELSE b
  BY TxFields, Zenon DEF Write!SendWindow, Write!MinOf
<1> HIDE DEF a, b
<1> QED BY <1>1

\* A world with another connection for the same bytes.
Follows(wr, w, wr2, d) ==
  /\ wr \in Nat /\ Good(w, wr) /\ wr2 \in Nat /\ ConnGood(d, wr2) /\ wr <= wr2
  /\ wr2 - Len(d.sndb) <= Len(w.p.stream)

With(w, d) == [w EXCEPT !.c = d]

LEMMA GoodConn ==
  ASSUME NEW wr, NEW w, NEW wr2, NEW d, Follows(wr, w, wr2, d)
  PROVE  Good(With(w, d), wr2) /\ With(w, d).c = d /\ With(w, d).p = w.p /\ With(w, d).stop = w.stop
<1> DEFINE r == Len(w.p.stream)
           v == With(w, d)
<1>0. wr \in Nat /\ Good(w, wr) /\ wr2 \in Nat /\ ConnGood(d, wr2) /\ wr <= wr2 /\ wr2 - Len(d.sndb) <= r
  BY Zenon DEF Follows
<1>1. w \in TxWorld /\ d \in TxRec /\ r \in Nat /\ r <= wr
  BY <1>0, GoodNumbers, Zenon DEF ConnGood
<1>2. v \in TxWorld /\ v.c = d /\ v.p = w.p /\ v.stop = w.stop
  BY <1>1, Zenon DEF TxWorld, With
<1> HIDE DEF v
<1>3. r <= wr2
  <2> HIDE DEF r
  <2> QED BY <1>0, <1>1
<1>5. PeerGood(v.p, wr2 - Len(v.c.sndb), wr2)
  BY <1>0, <1>1, <1>2, <1>3, Zenon DEF Good, PeerGood
<1>6. Good(v, wr2)
  BY <1>0, <1>2, <1>5, Zenon DEF Good
<1> QED BY <1>2, <1>6, Zenon DEF v

\* The same, when neither the numbers nor sndb nor a running timer change.
LEMMA GoodKept ==
  ASSUME NEW wr \in Nat, NEW w, Good(w, wr), NEW d \in TxRec,
         d.una = w.c.una, d.nxt = w.c.nxt, d.sndb = w.c.sndb,
         (d.rto = w.c.rto /\ d.state = w.c.state) \/ d.rto = "on"
  PROVE  /\ Good([w EXCEPT !.c = d], wr) /\ [w EXCEPT !.c = d].c = d
         /\ [w EXCEPT !.c = d].p = w.p /\ [w EXCEPT !.c = d].stop = w.stop
<1> DEFINE v == [w EXCEPT !.c = d]
<1>1. ConnGood(w.c, wr) /\ wr - Len(d.sndb) <= Len(w.p.stream)
  BY GoodNumbers, Zenon
<1>2. ConnGood(d, wr)
  BY <1>1, ConnKept, Zenon
<1>3. wr <= wr
  OBVIOUS
<1>4. Follows(wr, w, wr, d)
  BY <1>1, <1>2, <1>3, Zenon DEF Follows
<1>5. v = With(w, d)
  BY Zenon DEF With
<1> HIDE DEF v
<1>6. Good(v, wr) /\ v.c = d /\ v.p = w.p /\ v.stop = w.stop
  BY <1>4, <1>5, GoodConn
<1> QED BY <1>6, Zenon DEF v

\* What is left to send and the windows bound what is sent.
LEMMA RoomIn ==
  ASSUME NEW l \in Nat, NEW f \in Nat, NEW sw \in Nat, f < sw, f < l, NEW m \in Nat
  PROVE  LET n == Write!MinOf(Write!MinOf(l - f, sw - f), m)
         IN  n \in Nat /\ f + n <= l /\ f + n <= sw
  BY DEF Write!MinOf

\* One turn of the loop of tcp_xmit_pending().
LEMMA XmitOneGood ==
  ASSUME NEW wr \in Nat, NEW w, Good(w, wr), NEW out
  PROVE  LET v == Write!XmitOne(w, out)
         IN  Good(v, wr) /\ Moved(w.c, v.c)
<1> DEFINE c == w.c
           f == Write!InFlight(c)
           sw == Write!SendWindow(c)
           n == Write!Room(c)
           l == Len(c.sndb)
           x == wr - l
           sent == Write!Put(w, c.nxt, Write!Buffered(c, f, n), out)
           d == [Write!Armed(c) EXCEPT !.nxt = (@ + n) % Write!Mod, !.persist = "off"]
           v == Write!XmitOne(w, out)
<1>1. w \in TxWorld /\ c \in TxRec /\ ConnGood(c, wr) /\ l \in Nat /\ l <= wr
  BY GoodNumbers, Zenon
<1>2. f \in Nat /\ sw \in Nat /\ f <= l /\ c.nxt = SeqOf(x + f) /\ x \in Nat
  BY <1>1, WindowType, ConnNumbers, Zenon
<1>3. \/ v = w
      \/ v = [w EXCEPT !.stop = "yes"]
      \/ f < sw /\ f < l /\ v = [sent EXCEPT !.c = d]
  <2>1. \/ v = w
        \/ v = [w EXCEPT !.stop = "yes"]
        \/ ~(f >= sw) /\ ~(l <= f) /\ v = [sent EXCEPT !.c = d]
    BY Zenon DEF Write!XmitOne
  <2> HIDE DEF f, sw, l
  <2>2. (~(f >= sw) => f < sw) /\ (~(l <= f) => f < l)
    BY <1>1, <1>2
  <2> QED BY <2>1, <2>2, Zenon
<1>4. CASE v = w
  BY <1>4, Zenon DEF Moved
<1>5. CASE v = [w EXCEPT !.stop = "yes"]
  <2> HIDE DEF v
  <2>1. v \in TxWorld /\ v.c = w.c /\ v.p = w.p
    BY <1>1, <1>5, Zenon DEF TxWorld
  <2>2. Good(v, wr)
    BY <2>1, Zenon DEF Good
  <2>3. Moved(c, v.c)
    BY <2>1, Zenon DEF Moved
  <2> QED BY <2>2, <2>3, Zenon DEF v
<1>6. CASE f < sw /\ f < l /\ v = [sent EXCEPT !.c = d]
  <2>0. n = Write!MinOf(Write!MinOf(l - f, sw - f), TxMss) /\ TxMss \in Nat
    <3>1. TxMss \in Nat
      BY SenderAssumption
    <3> QED BY <3>1, Zenon DEF Write!Room
  <2>1. n \in Nat /\ f + n <= l /\ f + n <= sw
    <3> HIDE DEF f, sw, l, n
    <3> QED BY <1>1, <1>2, <1>6, <2>0, RoomIn, Zenon
  <2>3. Write!Buffered(c, f, n) = Write!Positions(x + f, x + f + n)
    <3>1. IsSlice(wr, c, f, n)
      BY <1>1, <1>2, <2>1, Zenon DEF IsSlice
    <3> QED BY <3>1, BufferedIs
  <2>5. /\ d \in TxRec /\ d.una = c.una /\ d.nxt = (c.nxt + n) % Write!Mod /\ d.sndb = c.sndb
        /\ d.rto = "on" /\ d.state = c.state /\ d.win = c.win /\ d.cwnd = c.cwnd
    <3> HIDE DEF n, c
    <3>1. c.nxt + n \in Int
      BY <1>1, <2>1, ModNumber DEF TxRec, TxSeqs
    <3>2. (c.nxt + n) % Write!Mod \in TxSeqs
      <4> DEFINE y == c.nxt + n
      <4>1. y \in Int
        BY <3>1, Zenon
      <4> HIDE DEF y
      <4>2. y % Write!Mod \in TxSeqs
        BY <4>1, ModNumber, ModType DEF TxSeqs
      <4> QED BY <4>2, Zenon DEF y
    <3> HIDE DEF TxSeqs
    <3> QED BY <1>1, <3>2, Zenon DEF Write!Armed, TxRec
  <2> DEFINE y == x + f
  <2>4. Good(sent, wr) /\ sent.c = c /\ sent.stop = w.stop
    <3>0. sent = Write!Put(w, SeqOf(y), Write!Positions(y, y + n), out)
      BY <1>2, <2>3, Zenon
    <3>1. y \in Nat /\ x <= y /\ y + n <= wr
      <4> HIDE DEF f, l, n
      <4> QED BY <1>1, <1>2, <2>1
    <3> HIDE DEF y, sent
    <3>2. IsSegment(wr, w, y, n)
      BY <2>1, <3>1, Zenon DEF IsSegment
    <3> QED BY <3>0, <3>2, PutGood
  <2> HIDE DEF d, sent
  <2>6. ConnGood(d, wr) /\ Write!InFlight(d) = f + n
    <3>1. IsSent(wr, c, n, d)
      BY <1>1, <2>1, <2>5, Zenon DEF IsSent
    <3> QED BY <3>1, ConnSent
  <2>7. wr - Len(d.sndb) <= Len(sent.p.stream)
    BY <2>4, <2>5, GoodNumbers, Zenon
  <2>8. Good(v, wr) /\ v.c = d
    <3>1. wr <= wr
      OBVIOUS
    <3> HIDE DEF v
    <3>2. Follows(wr, sent, wr, d)
      BY <2>4, <2>6, <2>7, <3>1, Zenon DEF Follows
    <3>3. v = With(sent, d)
      BY <1>6, Zenon DEF With
    <3> QED BY <3>2, <3>3, GoodConn
  <2>9. Write!SendWindow(d) = sw
    BY <2>5, Zenon DEF Write!SendWindow
  <2>10. Moved(c, d)
    BY <2>1, <2>5, <2>6, <2>9, Zenon DEF Moved
  <2> QED BY <2>8, <2>10, Zenon
<1> QED BY <1>3, <1>4, <1>5, <1>6, Zenon

\* The loop of tcp_xmit_pending(), as a function of the number of turns.
Turn(S) == {Write!XmitOne(v, out) : v \in S, out \in TxOutcomes}
IsLoop(w, n, f) == f = [k \in 0 .. n |-> IF k = 0 THEN {w} ELSE Turn(f[k - 1])]

LEMMA LoopExists ==
  ASSUME NEW w, NEW n \in Nat
  PROVE  \E f : IsLoop(w, n, f)
<1> DEFINE T == {m \in Nat : ~ \E f : IsLoop(w, m, f)}
<1>1. SUFFICES ASSUME T # {} PROVE FALSE
  BY Zenon
<1>2. PICK m \in T : \A k \in T : m <= k
  BY <1>1, LeastNumber, Zenon
<1>3. m \in Nat /\ ~ \E f : IsLoop(w, m, f)
  BY Zenon
<1> HIDE DEF T
<1>4. m # 0
  <2> DEFINE g == [k \in 0 .. 0 |-> {w}]
  <2>1. g = [k \in 0 .. 0 |-> IF k = 0 THEN {w} ELSE Turn(g[k - 1])]
    OBVIOUS
  <2> HIDE DEF g
  <2>2. IsLoop(w, 0, g)
    BY <2>1, Zenon DEF IsLoop
  <2> QED BY <1>3, <2>2, Zenon
<1>5. PICK f : IsLoop(w, m - 1, f)
  <2>1. m - 1 \in Nat /\ ~(m <= m - 1)
    BY <1>3, <1>4
  <2> QED BY <1>2, <2>1, Zenon DEF T
<1>6. /\ f = [k \in 0 .. m - 1 |-> f[k]]
      /\ \A k \in 0 .. m - 1 : f[k] = IF k = 0 THEN {w} ELSE Turn(f[k - 1])
  BY <1>5, Zenon DEF IsLoop
<1> DEFINE g == [k \in 0 .. m |-> IF k = m THEN Turn(f[m - 1]) ELSE f[k]]
<1>7. \A k \in 0 .. m : g[k] = IF k = 0 THEN {w} ELSE Turn(g[k - 1])
  <2> SUFFICES ASSUME NEW k \in 0 .. m PROVE g[k] = IF k = 0 THEN {w} ELSE Turn(g[k - 1])
    BY Zenon
  <2>1. CASE k = m
    <3>1. k # 0 /\ m - 1 \in 0 .. m /\ m - 1 # m
      BY <1>3, <1>4, <2>1
    <3> QED BY <2>1, <3>1, Zenon
  <2>2. CASE k # m
    <3>1. k \in 0 .. m - 1 /\ (k # 0 => k - 1 \in 0 .. m /\ k - 1 # m)
      BY <1>3, <2>2
    <3> QED BY <1>6, <2>2, <3>1, Zenon
  <2> QED BY <2>1, <2>2, Zenon
<1>8. g = [k \in 0 .. m |-> g[k]]
  BY Zenon
<1> HIDE DEF g
<1>9. IsLoop(w, m, g)
  BY <1>7, <1>8, Zenon DEF IsLoop
<1> QED BY <1>3, <1>9, Zenon

LEMMA LoopGood ==
  ASSUME NEW wr \in Nat, NEW w, Good(w, wr), NEW n \in Nat, NEW f, IsLoop(w, n, f)
  PROVE  \A v \in f[n] : Good(v, wr) /\ Moved(w.c, v.c)
<1> DEFINE Fine(v) == Good(v, wr) /\ Moved(w.c, v.c)
           T == {k \in 0 .. n : ~ \A v \in f[k] : Fine(v)}
<1>0. \A k \in 0 .. n : f[k] = IF k = 0 THEN {w} ELSE Turn(f[k - 1])
  BY Zenon DEF IsLoop
<1>1. ASSUME T # {} PROVE FALSE
  <2>1. T \subseteq Nat
    OBVIOUS
  <2>2. PICK m \in T : \A k \in T : m <= k
    BY <1>1, <2>1, LeastNumber, Zenon
  <2>3. m \in 0 .. n /\ ~ \A v \in f[m] : Fine(v)
    BY Zenon
  <2>4. CASE m = 0
    <3>1. f[m] = {w}
      BY <1>0, <2>3, <2>4, Zenon
    <3>2. Fine(w)
      BY Zenon DEF Moved
    <3> HIDE DEF Fine
    <3> QED BY <2>3, <3>1, <3>2, Zenon
  <2>5. CASE m # 0
    <3>1. m - 1 \in 0 .. n /\ ~(m <= m - 1)
      BY <2>3, <2>5
    <3>2. \A v \in f[m - 1] : Fine(v)
      BY <2>2, <3>1, Zenon
    <3>3. f[m] = Turn(f[m - 1])
      BY <1>0, <2>3, <2>5, Zenon
    <3>4. ASSUME NEW v \in f[m - 1], NEW out \in TxOutcomes PROVE Fine(Write!XmitOne(v, out))
      <4>1. Good(v, wr) /\ Moved(w.c, v.c)
        BY <3>2, Zenon
      <4> DEFINE u == Write!XmitOne(v, out)
      <4>2. Good(u, wr) /\ Moved(v.c, u.c)
        BY <4>1, XmitOneGood, Zenon
      <4> HIDE DEF u
      <4>3. Moved(w.c, u.c)
        BY <4>1, <4>2, MovedTwice, Zenon
      <4> QED BY <4>2, <4>3, Zenon DEF u
    <3> HIDE DEF Fine
    <3>5. PICK u \in f[m] : ~Fine(u)
      BY <2>3, Zenon
    <3>6. u \in Turn(f[m - 1])
      BY <3>3, Zenon
    <3>7. PICK v \in f[m - 1], out \in TxOutcomes : u = Write!XmitOne(v, out)
      BY <3>6 DEF Turn
    <3> QED BY <3>4, <3>5, <3>7, Zenon
  <2> QED BY <2>4, <2>5, Zenon
<1>2. n \in 0 .. n
  OBVIOUS
<1> QED BY <1>1, <1>2, Zenon

LEMMA TurnsType == Write!MaxTurns \in Nat
<1>1. TxBuf \in Nat /\ TxMss \in Nat /\ TxMss > 0
  BY SenderAssumption
<1>2. TxBuf \div TxMss \in Nat
  BY <1>1
<1> QED BY <1>2 DEF Write!MaxTurns

\* tcp_xmit_pending(), whatever becomes of its segments.
LEMMA XmitGood ==
  ASSUME NEW wr \in Nat, NEW w, Good(w, wr), NEW v \in Write!tcp_xmit_pending(w)
  PROVE  Good(v, wr) /\ Moved(w.c, v.c)
<1> DEFINE n == Write!MaxTurns
           f == CHOOSE g : IsLoop(w, n, g)
<1>1. n \in Nat
  BY TurnsType, Zenon
<1>2. IsLoop(w, n, f)
  BY <1>1, LoopExists, Zenon
<1>3. Write!tcp_xmit_pending(w) =
        IF Write!SendWindow(w.c) > 0 THEN f[n]
        ELSE IF Len(w.c.sndb) > Write!InFlight(w.c) THEN {[w EXCEPT !.c.persist = "on"]}
        ELSE {w}
  BY DEF Write!tcp_xmit_pending, IsLoop, Turn
<1> HIDE DEF f, n
<1>4. \/ v \in f[n]
      \/ v = [w EXCEPT !.c.persist = "on"]
      \/ v = w
  BY <1>3, Zenon
<1>5. CASE v \in f[n]
  BY <1>1, <1>2, <1>5, LoopGood, Zenon
<1>6. CASE v = [w EXCEPT !.c.persist = "on"]
  <2> DEFINE d == [w.c EXCEPT !.persist = "on"]
  <2>1. w \in TxWorld /\ w.c \in TxRec /\ ConnGood(w.c, wr)
    BY DEF Good, TxWorld
  <2>2. v = [w EXCEPT !.c = d]
    BY <1>6, <2>1, Zenon
  <2>3. /\ d \in TxRec /\ d.una = w.c.una /\ d.nxt = w.c.nxt /\ d.sndb = w.c.sndb
        /\ d.rto = w.c.rto /\ d.state = w.c.state /\ d.win = w.c.win /\ d.cwnd = w.c.cwnd
    BY <2>1, Zenon DEF TxRec
  <2> HIDE DEF d
  <2>6. Good(v, wr) /\ v.c = d
    BY <2>2, <2>3, GoodKept
  <2>7. Moved(w.c, d)
    BY <2>3, Zenon DEF Moved
  <2> QED BY <2>6, <2>7, Zenon
<1>7. CASE v = w
  BY <1>7, Zenon DEF Moved
<1> QED BY <1>4, <1>5, <1>6, <1>7, Zenon

-----------------------------------------------------------------------------
(* What a segment of the peer does.                                        *)

\* v may come of the connection c: the stream is intact, and new data is
\* inside the windows.
Out(c, v, wr) ==
  /\ Good(v, wr) /\ v.c.state = c.state
  /\ v.c.nxt = c.nxt \/ Write!InFlight(v.c) <= Write!SendWindow(v.c)

LEMMA XmitOut ==
  ASSUME NEW wr \in Nat, NEW c, NEW w, Good(w, wr), w.c.state = c.state, w.c.nxt = c.nxt,
         NEW v \in Write!tcp_xmit_pending(w)
  PROVE  Out(c, v, wr)
<1>1. Good(v, wr) /\ Moved(w.c, v.c)
  BY XmitGood
<1> QED BY <1>1, Zenon DEF Out, Moved

\* Everything but the numbers, sndb, the state and the timer.
LEMMA WindowRec ==
  ASSUME NEW c \in TxRec, NEW win \in Windows
  PROVE  LET d == Write!Window(c, win)
         IN  /\ d \in TxRec /\ d.una = c.una /\ d.nxt = c.nxt /\ d.sndb = c.sndb
             /\ d.rto = c.rto /\ d.state = c.state
<1>1. win \in Nat
  BY SenderAssumption, Zenon
<1> QED BY <1>1, Zenon DEF Write!Window, TxRec

LEMMA MssType == TxMss \in Nat \ {0} /\ TxBuf \in Nat \ {0} /\ Write!CwndCap \in Nat \ {0}
<1>1. TxMss \in Nat \ {0} /\ TxBuf \in Nat \ {0}
  BY SenderAssumption, Zenon
<1> QED BY <1>1 DEF Write!CwndCap

LEMMA MinType ==
  ASSUME NEW a \in Nat, NEW b \in Nat
  PROVE  /\ Write!MinOf(a, b) \in Nat /\ Write!MinOf(a, b) <= a /\ Write!MinOf(a, b) <= b
         /\ (a # 0 /\ b # 0 => Write!MinOf(a, b) # 0)
  BY DEF Write!MinOf

LEMMA LossRec ==
  ASSUME NEW c \in TxRec, NEW n \in Nat
  PROVE  LET d == Write!tcp_loss_window(c, n)
         IN  /\ d \in TxRec /\ d.una = c.una /\ d.nxt = c.nxt /\ d.sndb = c.sndb
             /\ d.rto = c.rto /\ d.state = c.state
<1> DEFINE s == Write!MaxOf(n \div 2, 2 * TxMss)
<1>1. s \in Nat \ {0}
  BY MssType DEF Write!MaxOf
<1> HIDE DEF s
<1>2. 0 \in Nat /\ TxMss \in Nat \ {0}
  BY MssType
<1>3. Write!tcp_loss_window(c, n) =
        [c EXCEPT !.ssthresh = s, !.cwnd = TxMss, !.dupacks = 0, !.fast = "no"]
  BY Zenon DEF Write!tcp_loss_window, s
<1> DEFINE d == Write!tcp_loss_window(c, n)
<1> HIDE DEF d
<1>4. d \in TxRec
  BY <1>1, <1>2, <1>3, Zenon DEF TxRec, d
<1>5. d.una = c.una /\ d.nxt = c.nxt /\ d.sndb = c.sndb /\ d.rto = c.rto /\ d.state = c.state
  BY <1>3, Zenon DEF TxRec, d
<1> QED BY <1>4, <1>5, Zenon DEF d

LEMMA FirstIs ==
  ASSUME NEW wr \in Nat, NEW c, ConnGood(c, wr), NEW n \in Nat, n <= Len(c.sndb)
  PROVE  Write!Buffered(c, 0, n) = Write!Positions(wr - Len(c.sndb), wr - Len(c.sndb) + n)
<1> DEFINE l == Len(c.sndb)
           x == wr - l
           o == 0
<1>1. l \in Nat /\ x \in Nat /\ n <= l
  BY ConnNumbers, Zenon
<1>2. o \in Nat /\ o + n <= l /\ x + o = x
  <2> HIDE DEF l
  <2> QED BY <1>1
<1> HIDE DEF o
<1>3. IsSlice(wr, c, o, n)
  BY <1>1, <1>2, Zenon DEF IsSlice
<1>4. Write!Buffered(c, o, n) = Write!Positions(wr - Len(c.sndb) + o, wr - Len(c.sndb) + o + n)
  BY <1>3, BufferedIs
<1> QED BY <1>2, <1>4, Zenon DEF o

\* A segment of the first n bytes of sndb, at snd_una.
LEMMA FirstGood ==
  ASSUME NEW wr \in Nat, NEW w, Good(w, wr), NEW n \in Nat, n <= Len(w.c.sndb), NEW out,
         NEW v, v = Write!Put(w, w.c.una, Write!Buffered(w.c, 0, n), out)
  PROVE  Good(v, wr) /\ v.c = w.c /\ v.stop = w.stop
<1> DEFINE c == w.c
           l == Len(c.sndb)
           x == wr - l
<1>1. ConnGood(c, wr) /\ l \in Nat /\ l <= wr /\ x \in Nat /\ n <= l
  BY GoodNumbers, Zenon
<1>2. c.una = SeqOf(x)
  BY <1>1, ConnNumbers, Zenon
<1>3. x + n <= wr /\ x <= x
  <2> HIDE DEF l
  <2> QED BY <1>1
<1>5. Write!Buffered(c, 0, n) = Write!Positions(x, x + n)
  BY <1>1, FirstIs, Zenon
<1>6. v = Write!Put(w, SeqOf(x), Write!Positions(x, x + n), out)
  BY <1>2, <1>5, Zenon
<1>7. IsSegment(wr, w, x, n)
  BY <1>1, <1>3, Zenon DEF IsSegment
<1> HIDE DEF x, l, c
<1> QED BY <1>6, <1>7, PutGood

\* The third duplicate acknowledgement.
LEMMA FastGood ==
  ASSUME NEW wr \in Nat, NEW w, Good(w, wr), NEW out
  PROVE  Out(w.c, Write!FastRetransmit(w, out), wr)
<1> DEFINE c == w.c
           f == Write!InFlight(c)
           n == Write!MinOf(f, TxMss)
           l == Write!tcp_loss_window(c, f)
           cw == Write!MinOf(l.ssthresh + 3 * TxMss, Write!CwndCap)
           d == [l EXCEPT !.dupacks = 3, !.cwnd = cw, !.recover = c.nxt, !.rto = "on",
                          !.fast = IF out = "failed" THEN "no" ELSE "yes"]
           u == Write!Put(w, c.una, Write!Buffered(c, 0, n), out)
           v == Write!FastRetransmit(w, out)
<1>1. c \in TxRec /\ ConnGood(c, wr) /\ Len(c.sndb) \in Nat /\ c.nxt \in TxSeqs
  BY GoodNumbers, TxFields, Zenon
<1>2. f \in Nat /\ f <= Len(c.sndb)
  BY <1>1, ConnNumbers, Zenon
<1>3. /\ l \in TxRec /\ l.una = c.una /\ l.nxt = c.nxt /\ l.sndb = c.sndb /\ l.state = c.state
      /\ l.ssthresh \in Nat \ {0}
  BY <1>1, <1>2, LossRec, TxFields, ZenonT(60)
<1>4. n \in Nat /\ n <= Len(c.sndb)
  <2> DEFINE e == Len(c.sndb)
  <2>1. n \in Nat /\ n <= f
    <3> HIDE DEF f
    <3>1. TxMss \in Nat
      BY MssType
    <3> QED BY <1>2, <3>1, MinType, Zenon
  <2>2. e \in Nat /\ f <= e
    BY <1>1, <1>2, Zenon
  <2> HIDE DEF e, f, n
  <2>3. n <= e
    BY <1>2, <2>1, <2>2
  <2> QED BY <2>1, <2>3, Zenon DEF e
<1>5. cw \in Nat \ {0} /\ 3 \in Nat
  <2> DEFINE b == l.ssthresh
             e == Write!CwndCap
  <2>1. b \in Nat \ {0} /\ e \in Nat \ {0}
    BY <1>3, MssType, Zenon
  <2> HIDE DEF b, e
  <2>2. Write!MinOf(b + 3 * TxMss, e) \in Nat \ {0}
    BY <2>1, MssType DEF Write!MinOf
  <2> QED BY <2>2 DEF b, e
<1>6. Good(u, wr) /\ u.c = c
  <2>1. u = Write!Put(w, w.c.una, Write!Buffered(w.c, 0, n), out) /\ n <= Len(w.c.sndb)
    BY <1>4, Zenon
  <2> HIDE DEF n, u, f, cw, l, d
  <2> QED BY <1>4, <2>1, FirstGood
<1>7. v = [u EXCEPT !.c = d]
  BY Zenon DEF Write!FastRetransmit
<1> HIDE DEF cw, l, u, n
<1>8. /\ d \in TxRec /\ d.una = c.una /\ d.nxt = c.nxt /\ d.sndb = c.sndb /\ d.state = c.state
      /\ d.rto = "on"
  BY <1>1, <1>3, <1>5, Zenon DEF TxRec
<1> HIDE DEF d, v
<1>9. Good(v, wr) /\ v.c = d
  BY <1>6, <1>7, <1>8, GoodKept
<1>10. Out(c, v, wr)
  BY <1>8, <1>9, Zenon DEF Out
<1> QED BY <1>10, Zenon DEF v

\* A duplicate acknowledgement.
LEMMA DuplicateGood ==
  ASSUME NEW wr \in Nat, NEW w, Good(w, wr), NEW v \in Write!Duplicate(w)
  PROVE  Out(w.c, v, wr)
<1> DEFINE c == w.c
           k == Write!MinOf(c.dupacks + 1, 4)
           d == [c EXCEPT !.dupacks = k]
           cw == Write!MinOf(d.cwnd + TxMss, Write!CwndCap)
           e == [d EXCEPT !.cwnd = cw]
           wd == [w EXCEPT !.c = d]
           we == [w EXCEPT !.c = e]
<1>1. c \in TxRec /\ c.dupacks \in Nat /\ c.cwnd \in Nat \ {0}
  BY GoodNumbers, TxFields, Zenon
<1>2. k \in Nat
  <2> DEFINE q == c.dupacks
  <2>1. q \in Nat
    BY <1>1, Zenon
  <2> HIDE DEF q
  <2>2. Write!MinOf(q + 1, 4) \in Nat
    BY <2>1 DEF Write!MinOf
  <2> QED BY <2>2, Zenon DEF q
<1>3. \/ \E out \in TxOutcomes : v = Write!FastRetransmit(wd, out)
      \/ v \in Write!tcp_xmit_pending(we)
      \/ v = wd
  BY Zenon DEF Write!Duplicate
<1> HIDE DEF k
<1>4. /\ d \in TxRec /\ d.una = c.una /\ d.nxt = c.nxt /\ d.sndb = c.sndb /\ d.rto = c.rto
      /\ d.state = c.state /\ d.cwnd = c.cwnd
  BY <1>1, <1>2, Zenon DEF TxRec
<1> HIDE DEF d
<1>5. cw \in Nat \ {0}
  <2> DEFINE q == d.cwnd
             z == Write!CwndCap
  <2>1. q \in Nat \ {0} /\ z \in Nat \ {0}
    BY <1>1, <1>4, MssType, Zenon
  <2> HIDE DEF q, z
  <2>2. Write!MinOf(q + TxMss, z) \in Nat \ {0}
    BY <2>1, MssType DEF Write!MinOf
  <2> QED BY <2>2, Zenon DEF q, z
<1> HIDE DEF cw
<1>6. /\ e \in TxRec /\ e.una = c.una /\ e.nxt = c.nxt /\ e.sndb = c.sndb /\ e.rto = c.rto
      /\ e.state = c.state
  BY <1>4, <1>5, Zenon DEF TxRec
<1> HIDE DEF e
<1>7. Good(wd, wr) /\ wd.c = d
  BY <1>4, GoodKept
<1>8. Good(we, wr) /\ we.c = e
  BY <1>6, GoodKept
<1> HIDE DEF wd, we
<1>9. CASE \E out \in TxOutcomes : v = Write!FastRetransmit(wd, out)
  <2>1. PICK out \in TxOutcomes : v = Write!FastRetransmit(wd, out)
    BY <1>9, Zenon
  <2>2. Out(d, v, wr)
    BY <1>7, <2>1, FastGood, Zenon
  <2> QED BY <1>4, <2>2, Zenon DEF Out
<1>10. CASE v \in Write!tcp_xmit_pending(we)
  BY <1>6, <1>8, <1>10, XmitOut
<1>11. CASE v = wd
  BY <1>4, <1>7, <1>11, Zenon DEF Out
<1> QED BY <1>3, <1>9, <1>10, <1>11, Zenon

\* The congestion window after an acknowledgement of k bytes.
LEMMA GrownType ==
  ASSUME NEW cw \in Nat \ {0}, NEW th \in Nat \ {0}, NEW k \in Nat
  PROVE  LET g == IF k = 0 THEN cw
                  ELSE IF cw < th THEN cw + Write!MinOf(k, TxMss)
                  ELSE cw + Write!MaxOf((TxMss * k) \div cw, 1)
         IN  Write!MinOf(g, Write!CwndCap) \in Nat \ {0}
<1> DEFINE q == (TxMss * k) \div cw
           z == Write!CwndCap
<1>1. TxMss \in Nat \ {0} /\ z \in Nat \ {0}
  BY MssType, Zenon
<1>2. TxMss * k \in Nat
  BY <1>1
<1>3. q \in Int
  BY <1>2
<1> HIDE DEF q, z
<1>4. cw + Write!MinOf(k, TxMss) \in Nat \ {0} /\ cw + Write!MaxOf(q, 1) \in Nat \ {0}
  BY <1>1, <1>3 DEF Write!MinOf, Write!MaxOf
<1> DEFINE g == IF k = 0 THEN cw
                ELSE IF cw < th THEN cw + Write!MinOf(k, TxMss)
                ELSE cw + Write!MaxOf(q, 1)
<1>5. g \in Nat \ {0}
  BY <1>4, Zenon
<1> HIDE DEF g
<1>6. Write!MinOf(g, z) \in Nat \ {0}
  BY <1>1, <1>5 DEF Write!MinOf
<1> QED BY <1>6, Zenon DEF g, q, z

\* The timer after an acknowledgement.
Rearmed(u) == [u EXCEPT !.c.rto = Write!RtoAfterAck(u.c)]

LEMMA RtoGood ==
  ASSUME NEW wr \in Nat, NEW u, Good(u, wr), NEW v, v = Rearmed(u)
  PROVE  /\ Good(v, wr) /\ v.c.state = u.c.state /\ v.c.nxt = u.c.nxt
         /\ Write!InFlight(v.c) = Write!InFlight(u.c) /\ Write!SendWindow(v.c) = Write!SendWindow(u.c)
<1> DEFINE t == Write!RtoAfterAck(u.c)
           d == [u.c EXCEPT !.rto = t]
<1>1. /\ u \in TxWorld /\ u.c \in TxRec /\ ConnGood(u.c, wr)
      /\ wr - Len(u.c.sndb) <= Len(u.p.stream)
  BY GoodNumbers, Zenon
<1>2. t \in {"on", "off"} /\ (u.c.nxt # u.c.una => t = "on")
  BY Zenon DEF Write!RtoAfterAck
<1>3. v = [u EXCEPT !.c = d]
  BY <1>1, Zenon DEF Rearmed
<1> HIDE DEF t
<1>4. /\ d \in TxRec /\ d.una = u.c.una /\ d.nxt = u.c.nxt /\ d.sndb = u.c.sndb /\ d.rto = t
      /\ d.state = u.c.state /\ d.win = u.c.win /\ d.cwnd = u.c.cwnd
  BY <1>1, <1>2, Zenon DEF TxRec
<1> HIDE DEF d
<1>5. Write!InFlight(d) = Write!InFlight(u.c) /\ Write!SendWindow(d) = Write!SendWindow(u.c)
  BY <1>4, Zenon DEF Write!InFlight, Write!SendWindow
<1>6. Write!InFlight(d) > 0 => d.nxt # d.una
  <2> SUFFICES ASSUME d.nxt = d.una PROVE ~(Write!InFlight(d) > 0)
    BY Zenon
  <2>1. Write!InFlight(d) = 0
    <3>1. d.nxt \in Int
      BY <1>4, ModNumber DEF TxRec, TxSeqs
    <3>2. d.nxt - d.una = 0
      BY <3>1
    <3> QED BY <3>2, ZeroMod, Zenon DEF Write!InFlight
  <2> QED BY <2>1
<1>7. ConnGood(d, wr)
  BY <1>1, <1>2, <1>4, <1>5, <1>6, Zenon DEF ConnGood, Timed
<1>8. Follows(wr, u, wr, d)
  <2>1. wr <= wr
    OBVIOUS
  <2> QED BY <1>1, <1>4, <1>7, <2>1, Zenon DEF Follows
<1>9. Good(v, wr) /\ v.c = d
  BY <1>3, <1>8, GoodConn DEF With
<1> QED BY <1>4, <1>5, <1>9, Zenon

\* What an acknowledgement of the k bytes after snd_una is about.
Acknowledges(wr, w, k, ack) ==
  /\ wr \in Nat /\ Good(w, wr) /\ k \in Nat /\ k <= Write!InFlight(w.c)
  /\ wr - Len(w.c.sndb) + k <= Len(w.p.stream) /\ ack = SeqOf(wr - Len(w.c.sndb) + k)

LEMMA AckedIs ==
  ASSUME NEW wr, NEW w, NEW k, NEW ack, Acknowledges(wr, w, k, ack)
  PROVE  Write!Acked(w.c, ack) = k
<1> DEFINE l == Len(w.c.sndb)
           x == wr - l
           f == Write!InFlight(w.c)
           y == x + k
<1>1. wr \in Nat /\ Good(w, wr) /\ k \in Nat /\ k <= f /\ ack = SeqOf(y) /\ ConnGood(w.c, wr)
  BY Zenon DEF Acknowledges, Good
<1>2. l \in Nat /\ l <= TxBuf /\ x \in Nat /\ f \in Nat /\ f <= l /\ w.c.una = SeqOf(x)
  BY <1>1, ConnNumbers, Zenon
<1> HIDE DEF l, f
<1>3. y \in Nat /\ x <= y /\ y - x < Write!Mod /\ y - x = k
  BY <1>1, <1>2, ModNumber
<1> HIDE DEF x, y
<1>4. (SeqOf(y) - SeqOf(x)) % Write!Mod = k
  BY <1>2, <1>3, SeqAhead, Zenon
<1>5. Write!MinOf(k, l) = k
  BY <1>1, <1>2 DEF Write!MinOf
<1> QED BY <1>1, <1>2, <1>4, <1>5, Zenon DEF Write!Acked, l

\* The connection when its first k bytes are acknowledged.
NextConn(c, k, ack) ==
  LET grown == IF k = 0 THEN c.cwnd
               ELSE IF c.cwnd < c.ssthresh THEN c.cwnd + Write!MinOf(k, TxMss)
               ELSE c.cwnd + Write!MaxOf((TxMss * k) \div c.cwnd, 1)
      over == c.fast = "yes" /\ ~Write!tcp_seq_after(c.recover, ack)
  IN  [c EXCEPT !.una = ack, !.sndb = SubSeq(@, k + 1, Len(@)),
                !.cwnd = IF over THEN c.ssthresh ELSE Write!MinOf(grown, Write!CwndCap),
                !.fast = IF over THEN "no" ELSE @,
                !.dupacks = 0, !.tries = 0]

LEMMA NextGood ==
  ASSUME NEW wr, NEW w, NEW k, NEW ack, Acknowledges(wr, w, k, ack), NEW u,
         u = With(w, NextConn(w.c, k, ack))
  PROVE  Good(u, wr) /\ u.c.state = w.c.state /\ u.c.nxt = w.c.nxt
<1> DEFINE c == w.c
           l == Len(c.sndb)
           x == wr - l
           g == IF k = 0 THEN c.cwnd
                ELSE IF c.cwnd < c.ssthresh THEN c.cwnd + Write!MinOf(k, TxMss)
                ELSE c.cwnd + Write!MaxOf((TxMss * k) \div c.cwnd, 1)
           over == c.fast = "yes" /\ ~Write!tcp_seq_after(c.recover, ack)
           h == IF over THEN c.ssthresh ELSE Write!MinOf(g, Write!CwndCap)
           s == SubSeq(c.sndb, k + 1, l)
           fs == IF over THEN "no" ELSE c.fast
           d == NextConn(c, k, ack)
<1>1. /\ wr \in Nat /\ Good(w, wr) /\ k \in Nat /\ k <= Write!InFlight(c)
      /\ x + k <= Len(w.p.stream) /\ ack = SeqOf(x + k)
  BY Zenon DEF Acknowledges
<1>2. c \in TxRec /\ ConnGood(c, wr) /\ l \in Nat /\ x \in Nat
  BY <1>1, GoodNumbers, Zenon
<1>3. c.cwnd \in Nat \ {0} /\ c.ssthresh \in Nat \ {0} /\ c.sndb \in Seq(Int) /\ fs \in {"no", "yes"}
  <2>1. c.fast \in {"no", "yes"}
    BY <1>2, Zenon DEF TxRec
  <2> QED BY <1>2, <2>1, TxFields, Zenon
<1>4. h \in Nat \ {0}
  <2>1. Write!MinOf(g, Write!CwndCap) \in Nat \ {0}
    BY <1>1, <1>3, GrownType, Zenon
  <2> QED BY <1>3, <2>1, Zenon
<1>5. s \in Seq(Int)
  <2> DEFINE b == c.sndb
  <2>1. b \in Seq(Int) /\ l = Len(b)
    BY <1>3, Zenon
  <2> HIDE DEF b, l
  <2>2. SubSeq(b, k + 1, l) \in Seq(Int)
    <3>1. \A i \in (k + 1) .. l : i \in 1 .. Len(b)
      BY <1>1, <2>1, <1>2
    <3> QED BY <1>1, <1>2, <2>1, <3>1
  <2> QED BY <2>2, Zenon DEF b
<1>6. ack \in TxSeqs
  <2>1. x + k \in Nat
    <3> HIDE DEF x
    <3> QED BY <1>1, <1>2
  <2> HIDE DEF x
  <2> QED BY <1>1, <2>1, SeqType, Zenon DEF TxSeqs
<1>7. d = [c EXCEPT !.una = ack, !.sndb = s, !.cwnd = h, !.fast = fs, !.dupacks = 0, !.tries = 0]
  BY Zenon DEF NextConn
<1> HIDE DEF h, s, fs, d
<1>8. 0 \in Nat
  OBVIOUS
<1>9. /\ d \in TxRec /\ d.una = SeqOf(wr - Len(c.sndb) + k) /\ d.nxt = c.nxt
      /\ d.sndb = SubSeq(c.sndb, k + 1, Len(c.sndb)) /\ d.rto = c.rto /\ d.state = c.state
  <2>1. d \in TxRec
    <3> HIDE DEF TxSeqs
    <3> QED BY <1>2, <1>3, <1>4, <1>5, <1>6, <1>7, <1>8, Zenon DEF TxRec
  <2>2. d.una = ack /\ d.sndb = s /\ d.nxt = c.nxt /\ d.rto = c.rto /\ d.state = c.state
    BY <1>2, <1>7, Zenon DEF TxRec
  <2> QED BY <1>1, <2>1, <2>2, Zenon DEF s
<1>10. ConnGood(d, wr) /\ wr - Len(d.sndb) = x + k
  <2>1. IsAcked(wr, c, k, d)
    BY <1>1, <1>2, <1>9, Zenon DEF IsAcked
  <2> QED BY <2>1, ConnAcked
<1>11. Follows(wr, w, wr, d)
  <2>1. wr <= wr
    BY <1>1
  <2> QED BY <1>1, <1>10, <2>1, Zenon DEF Follows
<1>12. u = With(w, d)
  BY Zenon DEF d
<1>13. Good(u, wr) /\ u.c = d
  BY <1>11, <1>12, GoodConn
<1> QED BY <1>9, <1>13, Zenon

\* Progress.
LEMMA ProgressGood ==
  ASSUME NEW wr, NEW w, NEW k, NEW ack, Acknowledges(wr, w, k, ack),
         NEW v \in Write!Progress(w, ack)
  PROVE  Out(w.c, v, wr)
<1> DEFINE u == With(w, NextConn(w.c, k, ack))
<1>1. Write!Acked(w.c, ack) = k
  BY AckedIs, Zenon
<1>2. Write!Progress(w, ack) = {Rearmed(t) : t \in Write!tcp_xmit_pending(u)}
  BY <1>1, Zenon DEF Write!Progress, NextConn, Rearmed, With
<1>3. wr \in Nat
  BY Zenon DEF Acknowledges
<1>4. Good(u, wr) /\ u.c.state = w.c.state /\ u.c.nxt = w.c.nxt
  BY NextGood
<1> HIDE DEF u
<1>5. PICK t \in Write!tcp_xmit_pending(u) : v = Rearmed(t)
  BY <1>2, Zenon
<1>6. Out(w.c, t, wr)
  BY <1>3, <1>4, XmitOut
<1>7. /\ Good(v, wr) /\ v.c.state = t.c.state /\ v.c.nxt = t.c.nxt
      /\ Write!InFlight(v.c) = Write!InFlight(t.c) /\ Write!SendWindow(v.c) = Write!SendWindow(t.c)
  BY <1>3, <1>5, <1>6, RtoGood, Zenon DEF Out
<1> QED BY <1>6, <1>7, Zenon DEF Out

\* What the peer may acknowledge: a byte it has got, or the one before snd_una.
AckFits(wr, w, ack) ==
  \/ \E k \in Nat : wr - Len(w.c.sndb) + k <= Len(w.p.stream) /\ ack = SeqOf(wr - Len(w.c.sndb) + k)
  \/ (ack - w.c.una) % Write!Mod = Write!Mod - 1

\* tcp_seq_after() of positions that are close.
LEMMA AfterIs ==
  ASSUME NEW y \in Nat, NEW z \in Nat, z < y, y - z <= TxBuf
  PROVE  Write!tcp_seq_after(SeqOf(y), SeqOf(z))
<1>1. z <= y /\ y - z < Write!Mod /\ y - z \in 1 .. (Write!Mod \div 2) - 1
  <2> DEFINE m == Write!Mod
             h == m \div 2
  <2>1. m \in Nat /\ TxBuf \in Nat /\ TxBuf < h /\ 2 * TxBuf < m
    BY ModNumber, Zenon
  <2>2. h \in Int
    <3> HIDE DEF m
    <3> QED BY <2>1
  <2> HIDE DEF h
  <2>3. z <= y /\ y - z < m /\ y - z \in 1 .. h - 1
    <3> HIDE DEF m
    <3> QED BY <2>1, <2>2
  <2> QED BY <2>3, Zenon DEF h
<1>2. (SeqOf(y) - SeqOf(z)) % Write!Mod = y - z
  BY <1>1, SeqAhead, Zenon
<1> QED BY <1>1, <1>2, Zenon DEF Write!tcp_seq_after

\* An acknowledgement after snd_una and not after snd_nxt is of bytes in flight.
LEMMA AckWithin ==
  ASSUME NEW wr \in Nat, NEW w, Good(w, wr), NEW ack, AckFits(wr, w, ack),
         Write!tcp_seq_after(ack, w.c.una), ~Write!tcp_seq_after(ack, w.c.nxt)
  PROVE  \E k \in Nat : Acknowledges(wr, w, k, ack)
<1> DEFINE l == Len(w.c.sndb)
           x == wr - l
           f == Write!InFlight(w.c)
           r == Len(w.p.stream)
<1>1. /\ ConnGood(w.c, wr) /\ l \in Nat /\ l <= TxBuf /\ l <= wr /\ x \in Nat
      /\ r \in Nat /\ x <= r /\ r <= wr
  BY GoodNumbers, Zenon
<1>2. f \in Nat /\ w.c.nxt = SeqOf(x + f)
  BY <1>1, ConnNumbers, Zenon
<1>3. (ack - w.c.una) % Write!Mod # Write!Mod - 1
  <2> DEFINE m == Write!Mod
             h == m \div 2
  <2>1. (ack - w.c.una) % m \in 1 .. h - 1
    BY Zenon DEF Write!tcp_seq_after
  <2>2. m - 1 \notin 1 .. h - 1
    <3>1. m \in Nat /\ m > 0
      BY ModNumber, Zenon
    <3> HIDE DEF m
    <3> QED BY <3>1
  <2> QED BY <2>1, <2>2, Zenon
<1>4. PICK k \in Nat : x + k <= r /\ ack = SeqOf(x + k)
  BY <1>3, Zenon DEF AckFits
<1> HIDE DEF l, f, r
<1>5. k <= f
  <2> SUFFICES ASSUME f < k PROVE FALSE
    BY <1>2
  <2> DEFINE y == x + k
             z == x + f
  <2>1. y \in Nat /\ z \in Nat /\ z < y /\ y - z <= TxBuf
    BY <1>1, <1>2, <1>4, ModNumber
  <2>2. ack = SeqOf(y) /\ w.c.nxt = SeqOf(z)
    BY <1>2, <1>4, Zenon
  <2> HIDE DEF y, z
  <2> QED BY <2>1, <2>2, AfterIs, Zenon
<1>6. Acknowledges(wr, w, k, ack)
  BY <1>4, <1>5, Zenon DEF Acknowledges, l, f, r
<1> QED BY <1>6, Zenon

\* The acknowledgement part of tcp_handle().
LEMMA AckGood ==
  ASSUME NEW wr \in Nat, NEW w, Good(w, wr), NEW ack, AckFits(wr, w, ack), NEW win \in Windows,
         NEW v \in Write!Ack(w, ack, win)
  PROVE  Out(w.c, v, wr)
<1> DEFINE c == w.c
           d == Write!Window(c, win)
           e == [d EXCEPT !.dupacks = 0]
           u == With(w, d)
           t == With(w, e)
<1>1. c \in TxRec /\ w \in TxWorld
  BY GoodNumbers, Zenon
<1>2. /\ d \in TxRec /\ d.una = c.una /\ d.nxt = c.nxt /\ d.sndb = c.sndb /\ d.rto = c.rto
      /\ d.state = c.state
  BY <1>1, WindowRec, Zenon
<1>3. \/ v \in Write!Duplicate(u)
      \/ v \in Write!tcp_xmit_pending(t)
      \/ /\ Write!tcp_seq_after(ack, c.una) /\ ~Write!tcp_seq_after(ack, c.nxt)
         /\ v \in Write!Progress(u, ack)
      \/ v = u
  <2> DEFINE ud == [u EXCEPT !.c.dupacks = 0]
  <2>1. ud = t
    <3> HIDE DEF d
    <3> QED BY <1>1, Zenon DEF TxWorld, With
  <2>2. \/ v \in Write!Duplicate(u)
        \/ v \in Write!tcp_xmit_pending(ud)
        \/ /\ Write!tcp_seq_after(ack, c.una) /\ ~Write!tcp_seq_after(ack, c.nxt)
           /\ v \in Write!Progress(u, ack)
        \/ v = u
    BY Zenon DEF Write!Ack, With
  <2> QED BY <2>1, <2>2, Zenon
<1> HIDE DEF d
<1>4. /\ e \in TxRec /\ e.una = c.una /\ e.nxt = c.nxt /\ e.sndb = c.sndb /\ e.rto = c.rto
      /\ e.state = c.state
  <2>1. 0 \in Nat
    OBVIOUS
  <2> QED BY <1>2, <2>1, Zenon DEF TxRec
<1> HIDE DEF e
<1>5. Good(u, wr) /\ u.c = d /\ u.p = w.p
  BY <1>2, GoodKept DEF With
<1>6. Good(t, wr) /\ t.c = e
  BY <1>4, GoodKept DEF With
<1> HIDE DEF u, t
<1>7. CASE v \in Write!Duplicate(u)
  <2>1. Out(u.c, v, wr)
    BY <1>5, <1>7, DuplicateGood, Zenon
  <2> QED BY <1>2, <1>5, <2>1, Zenon DEF Out
<1>8. CASE v \in Write!tcp_xmit_pending(t)
  BY <1>4, <1>6, <1>8, XmitOut
<1>9. CASE /\ Write!tcp_seq_after(ack, c.una) /\ ~Write!tcp_seq_after(ack, c.nxt)
           /\ v \in Write!Progress(u, ack)
  <2>1. AckFits(wr, u, ack)
    BY <1>2, <1>5, Zenon DEF AckFits
  <2>2. PICK k \in Nat : Acknowledges(wr, u, k, ack)
    <3>1. Write!tcp_seq_after(ack, u.c.una) /\ ~Write!tcp_seq_after(ack, u.c.nxt)
      BY <1>2, <1>5, <1>9, Zenon
    <3> QED BY <1>5, <2>1, <3>1, AckWithin, Zenon
  <2>3. Out(u.c, v, wr)
    BY <1>9, <2>2, ProgressGood, Zenon
  <2> QED BY <1>2, <1>5, <2>3, Zenon DEF Out
<1>10. CASE v = u
  BY <1>2, <1>5, <1>10, Zenon DEF Out
<1> QED BY <1>3, <1>7, <1>8, <1>9, <1>10, Zenon

-----------------------------------------------------------------------------
(* The steps.                                                              *)

SendInv == written \in Nat /\ Good(Write!world, written)

StepFine ==
  /\ SendInv'
  /\ wconn'.state = "ESTABLISHED"
       => wconn'.nxt = wconn.nxt \/ Write!InFlight(wconn') <= Write!SendWindow(wconn')

LEMMA WorldIs == Write!world.c = wconn /\ Write!world.p = wpeer /\ Write!world.stop = "no"
  BY Zenon DEF Write!world

LEMMA Becoming ==
  ASSUME NEW wr \in Nat, written' = wr, NEW v, Write!Becomes(v), Good(v, wr),
         v.c.nxt = wconn.nxt \/ Write!InFlight(v.c) <= Write!SendWindow(v.c) \/ v.c.state = "FREE"
  PROVE  StepFine
<1>1. wconn' = v.c /\ wpeer' = v.p
  BY Zenon DEF Write!Becomes
<1> DEFINE u == [c |-> v.c, p |-> v.p, stop |-> "no"]
<1>2. v \in TxWorld
  BY Zenon DEF Good
<1>3. u \in TxWorld /\ u.c = v.c /\ u.p = v.p
  BY <1>2, WorldFields, Zenon DEF TxWorld
<1>4. Write!world' = u
  BY <1>1, Zenon DEF Write!world
<1> HIDE DEF u
<1>5. Good(u, wr)
  BY <1>3, Zenon DEF Good
<1>6. SendInv'
  BY <1>4, <1>5, Zenon DEF SendInv
<1> QED BY <1>1, <1>6, Zenon DEF StepFine

LEMMA SendInit == Write!Init => SendInv
<1> SUFFICES ASSUME Write!Init PROVE SendInv
  BY Zenon
<1> DEFINE m == Write!Mod
<1>1. m \in Nat /\ m > 0 /\ Isn \in 0 .. m - 1 /\ TxBuf \in Nat /\ TxBuf > 0
  BY ModNumber, Zenon
<1>2. PICK win \in Windows :
        wconn = [state |-> "ESTABLISHED", una |-> Isn, nxt |-> Isn, sndb |-> <<>>, win |-> win,
                 cwnd |-> TxMss, ssthresh |-> TxBuf, dupacks |-> 0, fast |-> "no",
                 recover |-> 0, rto |-> "off", tries |-> 0, persist |-> "off"]
  BY Zenon DEF Write!Init
<1>3. wpeer = [stream |-> <<>>, eof |-> "no", fins |-> 0] /\ written = 0
  BY Zenon DEF Write!Init
<1>4. win \in Nat /\ TxMss \in Nat \ {0} /\ TxBuf \in Nat \ {0}
  BY SenderAssumption, Zenon
<1> HIDE DEF m
<1>5. 0 \in 0 .. m - 1 /\ 0 \in Nat /\ Isn - Isn = 0 /\ 0 <= 0 /\ 0 - 0 = 0 /\ 0 <= TxBuf
      /\ Isn + 0 = Isn /\ ~(0 > 0)
  BY <1>1
<1>6. Isn % m = Isn
  BY <1>1, ModSmall
<1>7. <<>> \in Seq(Int) /\ Len(<<>>) = 0
  OBVIOUS
<1>8. Write!Positions(0, 0) = <<>>
  BY DEF Write!Positions
<1>9. wconn \in TxRec /\ wpeer \in TxPeer
  BY <1>1, <1>2, <1>3, <1>4, <1>5, <1>7, Zenon DEF TxRec, TxPeer, TxSeqs, m
<1>10. wconn.sndb = <<>> /\ wconn.una = Isn /\ wconn.nxt = Isn /\ wpeer.stream = <<>>
  BY <1>2, <1>3, Zenon
<1>11. Write!InFlight(wconn) = 0
  BY <1>5, <1>10, ZeroMod, Zenon DEF Write!InFlight
<1>12. SeqOf(0) = Isn
  BY <1>5, <1>6, Zenon DEF SeqOf, m
<1>13. Timed(wconn)
  BY <1>5, <1>11, Zenon DEF Timed
<1>14. ConnGood(wconn, 0)
  BY <1>5, <1>7, <1>8, <1>9, <1>10, <1>11, <1>12, <1>13, Zenon DEF ConnGood
<1>15. PeerGood(wpeer, 0 - Len(wconn.sndb), 0)
  BY <1>5, <1>7, <1>8, <1>9, <1>10, Zenon DEF PeerGood
<1>16. Write!world \in TxWorld
  BY <1>9, Zenon DEF Write!world, TxWorld
<1>17. Good(Write!world, 0)
  BY <1>14, <1>15, <1>16, WorldIs, Zenon DEF Good
<1> QED BY <1>3, <1>5, <1>17, Zenon DEF SendInv

\* tcp_send()
LEMMA SendStep ==
  ASSUME SendInv, NEW n \in 1 .. TxMss, Write!tcp_send(n)
  PROVE  StepFine
<1> DEFINE w == Write!world
           wr == written
           c == wconn
           l == Len(c.sndb)
           b == c.sndb \o Write!Positions(wr, wr + n)
           d == [c EXCEPT !.sndb = b]
           u == With(w, d)
<1>1. wr \in Nat /\ Good(w, wr)
  BY Zenon DEF SendInv
<1>2. /\ w \in TxWorld /\ c \in TxRec /\ ConnGood(c, wr) /\ l \in Nat /\ l <= TxBuf
      /\ wr - l <= Len(w.p.stream)
  BY <1>1, GoodNumbers, WorldIs, Zenon
<1>3. n \in Nat /\ wr + n \in Nat /\ wr <= wr + n /\ wr + n - wr = n
  BY <1>1, MssType
<1>4. l + n <= TxBuf
  <2>1. n <= Write!MinOf(TxMss, TxBuf - l)
    BY Zenon DEF Write!tcp_send
  <2> HIDE DEF l
  <2> QED BY <1>2, <1>3, <2>1, MssType DEF Write!MinOf
<1>5. written' = wr + n /\ \E v \in Write!tcp_xmit_pending(u) : Write!Becomes(v)
  <2>1. Write!Positions(wr, wr + n) = [i \in 1 .. n |-> wr + i - 1]
    BY <1>1, <1>3 DEF Write!Positions
  <2>2. u = [w EXCEPT !.c.sndb = @ \o [i \in 1 .. n |-> wr + i - 1]]
    BY <1>2, <2>1, WorldIs, Zenon DEF With, TxWorld
  <2> QED BY <2>2, Zenon DEF Write!tcp_send
<1>6. b \in Seq(Int)
  <2>1. c.sndb \in Seq(Int) /\ Write!Positions(wr, wr + n) \in Seq(Int)
    <3> DEFINE z == wr + n
    <3>1. z \in Nat /\ wr <= z
      BY <1>3, Zenon
    <3> HIDE DEF z
    <3>2. Write!Positions(wr, z) \in Seq(Int)
      BY <1>1, <3>1, PosType, Zenon
    <3> QED BY <1>2, <3>2, TxFields, Zenon DEF z
  <2> QED BY <2>1, ConcatProperties, Zenon
<1> HIDE DEF b
<1>7. /\ d \in TxRec /\ d.una = c.una /\ d.nxt = c.nxt /\ d.rto = c.rto /\ d.state = c.state
      /\ d.sndb = b
  BY <1>2, <1>6, Zenon DEF TxRec
<1> HIDE DEF d
<1>8. ConnGood(d, wr + n) /\ (wr + n) - Len(d.sndb) = wr - l
  <2>1. d.sndb = c.sndb \o Write!Positions(wr, wr + n)
    BY <1>7, Zenon DEF b
  <2> QED BY <1>1, <1>2, <1>3, <1>4, <1>7, <2>1, ConnWritten, Zenon
<1>9. Follows(wr, w, wr + n, d)
  BY <1>1, <1>2, <1>3, <1>8, Zenon DEF Follows
<1>10. Good(u, wr + n) /\ u.c = d
  BY <1>9, GoodConn
<1> HIDE DEF u
<1>11. PICK v \in Write!tcp_xmit_pending(u) : Write!Becomes(v)
  BY <1>5, Zenon
<1>12. Out(c, v, wr + n)
  BY <1>3, <1>7, <1>10, XmitOut
<1> DEFINE z == wr + n
<1>13. z \in Nat /\ written' = z /\ Good(v, z)
       /\ (v.c.nxt = wconn.nxt \/ Write!InFlight(v.c) <= Write!SendWindow(v.c))
  BY <1>3, <1>5, <1>12, Zenon DEF Out
<1> HIDE DEF z
<1> QED BY <1>11, <1>13, Becoming, Zenon

\* A segment of the peer.
LEMMA PeerStep ==
  ASSUME SendInv, Write!PeerSends
  PROVE  StepFine
<1> DEFINE w == Write!world
           wr == written
           l == Len(wconn.sndb)
           x == wr - l
           r == Len(wpeer.stream)
           una == wconn.una
<1>1. wr \in Nat /\ Good(w, wr) /\ w.c = wconn /\ w.p = wpeer
  BY WorldIs, Zenon DEF SendInv
<1>2. /\ w \in TxWorld /\ wconn \in TxRec /\ wpeer \in TxPeer /\ ConnGood(wconn, wr)
      /\ l \in Nat /\ l <= TxBuf /\ l <= wr /\ x \in Nat /\ r \in Nat /\ x <= r /\ r <= wr
  BY <1>1, GoodNumbers, Zenon
<1>3. una = SeqOf(x) /\ una \in Int
  <2>1. una = SeqOf(x) /\ una \in TxSeqs
    BY <1>1, <1>2, ConnNumbers, TxFields, Zenon
  <2> HIDE DEF una, x
  <2> QED BY <2>1, ModNumber DEF TxSeqs
<1>4. (Write!PeerNext - una) % Write!Mod = r - x
  <2>1. wpeer.eof = "no"
    BY <1>1, <1>2, WorldFields, Zenon
  <2>2. Isn + r + 0 = Isn + r
    <3> HIDE DEF r
    <3> QED BY <1>2, ModNumber
  <2>3. Write!PeerNext = SeqOf(r)
    BY <2>1, <2>2, Zenon DEF Write!PeerNext, SeqOf
  <2>4. r - x < Write!Mod
    <3>1. /\ l \in Nat /\ l <= TxBuf /\ l <= wr /\ r \in Nat /\ r <= wr /\ wr \in Nat
          /\ 2 * TxBuf < Write!Mod /\ TxBuf \in Nat /\ Write!Mod \in Nat
      BY <1>1, <1>2, ModNumber, Zenon
    <3> HIDE DEF r, l, wr
    <3> QED BY <3>1
  <2> HIDE DEF x, r, una
  <2>5. (SeqOf(r) - SeqOf(x)) % Write!Mod = r - x
    BY <1>2, <2>4, SeqAhead, Zenon
  <2> QED BY <1>3, <2>3, <2>5, Zenon
<1>5. PICK off \in -OldAcks .. r - x, win \in Windows :
        Write!tcp_handle((una + off) % Write!Mod, win, FALSE)
  <2>1. wpeer.fins = 0
    BY <1>2, Zenon DEF TxPeer
  <2>2. ~(wpeer.fins > 0)
    BY <2>1
  <2> QED BY <1>4, <2>2, Zenon DEF Write!PeerSends
<1> DEFINE ack == (una + off) % Write!Mod
<1>6. AckFits(wr, w, ack)
  <2>1. off \in Int /\ (off = -1 \/ off \in Nat)
    <3> HIDE DEF r, x
    <3> QED BY <1>2, SenderAssumption
  <2>2. CASE off \in Nat
    <3>1. x + off <= r
      <4> HIDE DEF r, x
      <4> QED BY <1>2, <2>2
    <3> HIDE DEF x
    <3>2. (SeqOf(x) + off) % Write!Mod = (Isn + x + off) % Write!Mod
      BY <1>2, <2>1, SeqPlus, Zenon
    <3>3. Isn + x + off = Isn + (x + off)
      BY <1>2, <2>2, ModNumber
    <3>4. ack = SeqOf(x + off)
      BY <1>3, <3>2, <3>3, Zenon DEF SeqOf
    <3> QED BY <1>1, <2>2, <3>1, <3>4, Zenon DEF AckFits, x
  <2>3. CASE off = -1
    <3> DEFINE m == Write!Mod
               g == una + off
               h == -una
    <3>1. m \in Nat /\ m > 0
      BY ModNumber, Zenon
    <3> HIDE DEF una
    <3>2. g \in Int /\ h \in Int /\ g + h = -1 /\ -1 + m = m - 1 /\ m - 1 >= 0 /\ m - 1 < m /\ m - 1 \in Int
      BY <1>3, <2>3, <3>1
    <3>3. (g % m) + h = (g % m) - una
      <4>1. g % m \in Int
        BY <3>1, <3>2, ModType
      <4> HIDE DEF g
      <4> QED BY <1>3, <4>1
    <3> HIDE DEF m, g, h
    <3>4. ((g % m) + h) % m = (g + h) % m
      BY <3>1, <3>2, ModPlus, Zenon
    <3>5. (-1 + m) % m = (-1) % m
      BY <3>1, ModWrap
    <3>6. (m - 1) % m = m - 1
      BY <3>1, <3>2, ModSmall, Zenon
    <3>7. ((g % m) - una) % m = m - 1
      BY <3>2, <3>3, <3>4, <3>5, <3>6, Zenon
    <3> QED BY <1>1, <3>7, Zenon DEF AckFits, m, g, una
  <2> QED BY <2>1, <2>2, <2>3, Zenon
<1> HIDE DEF ack
<1>7. /\ wconn.state # "FREE" /\ written' = wr
      /\ \E v \in Write!Ack(w, ack, win) : Write!Becomes(Write!AckState(v, ack))
  BY <1>5, Zenon DEF Write!tcp_handle, ack
<1>8. PICK v \in Write!Ack(w, ack, win) : Write!Becomes(Write!AckState(v, ack))
  BY <1>7, Zenon
<1>9. wconn.state = "ESTABLISHED"
  BY <1>2, <1>7, TxFields, Zenon
<1> HIDE DEF w
<1>10. Out(wconn, v, wr)
  BY <1>1, <1>6, AckGood, Zenon
<1>11. v.c.state = "ESTABLISHED"
  BY <1>9, <1>10, Zenon DEF Out
<1>12. Write!AckState(v, ack) = v
  BY <1>11 DEF Write!AckState
<1>13. Write!Becomes(v)
  BY <1>8, <1>12, Zenon
<1>14. Good(v, wr) /\ (v.c.nxt = wconn.nxt \/ Write!InFlight(v.c) <= Write!SendWindow(v.c))
  BY <1>10, Zenon DEF Out
<1> QED BY <1>1, <1>7, <1>13, <1>14, Becoming, Zenon

\* The retransmission timer.
LEMMA RtoStep ==
  ASSUME SendInv, Write!tcp_tick_rto
  PROVE  StepFine
<1> DEFINE w == Write!world
           wr == written
           c == wconn
           l == Len(c.sndb)
           f == Write!InFlight(c)
           n == Write!RtoLen(c)
           freed == [w EXCEPT !.c.state = "FREE", !.c.rto = "off", !.c.persist = "off"]
           off == [w EXCEPT !.c.rto = "off"]
           loss == Write!Retry(Write!tcp_loss_window(c, n))
<1>1. wr \in Nat /\ Good(w, wr) /\ w.c = c /\ w.p = wpeer
  BY WorldIs, Zenon DEF SendInv
<1>2. /\ w \in TxWorld /\ c \in TxRec /\ ConnGood(c, wr) /\ l \in Nat
      /\ wr - l <= Len(w.p.stream)
  BY <1>1, GoodNumbers, Zenon
<1>3. f \in Nat /\ f <= l /\ c.state \in {"ESTABLISHED", "FREE"} /\ c.tries \in Nat
  BY <1>1, <1>2, ConnNumbers, TxFields, Zenon
<1>4. PICK out \in TxOutcomes :
        \/ Write!Becomes(freed)
        \/ Write!Becomes([Write!Put(w, c.una, Write!Buffered(c, 0, n), out) EXCEPT !.c = loss])
        \/ c.sndb = <<>> /\ Write!Becomes(off)
  <2>1. c.state = "ESTABLISHED"
    BY <1>3, Zenon DEF Write!tcp_tick_rto
  <2> QED BY <2>1, Zenon DEF Write!tcp_tick_rto
<1>5. written' = wr
  BY Zenon DEF Write!tcp_tick_rto
<1>6. CASE Write!Becomes(freed)
  <2> DEFINE d == [c EXCEPT !.state = "FREE", !.rto = "off", !.persist = "off"]
  <2>1. freed = With(w, d)
    BY <1>1, <1>2, Zenon DEF With, TxWorld
  <2>2. d \in TxRec /\ d.una = c.una /\ d.nxt = c.nxt /\ d.sndb = c.sndb /\ d.state = "FREE"
    BY <1>2, Zenon DEF TxRec
  <2> HIDE DEF d
  <2>3. Write!InFlight(d) = f
    BY <2>2, Zenon DEF Write!InFlight
  <2>4. ConnGood(d, wr)
    BY <1>2, <2>2, <2>3, Zenon DEF ConnGood, Timed
  <2>5. wr <= wr
    BY <1>1
  <2>6. Follows(wr, w, wr, d)
    BY <1>1, <1>2, <2>2, <2>4, <2>5, Zenon DEF Follows
  <2> HIDE DEF freed
  <2>7. Good(freed, wr) /\ freed.c = d
    BY <2>1, <2>6, GoodConn
  <2>8. freed.c.state = "FREE"
    BY <2>2, <2>7, Zenon
  <2> QED BY <1>1, <1>5, <1>6, <2>7, <2>8, Becoming, Zenon
<1>7. CASE Write!Becomes([Write!Put(w, c.una, Write!Buffered(c, 0, n), out) EXCEPT !.c = loss])
  <2> DEFINE u == Write!Put(w, c.una, Write!Buffered(c, 0, n), out)
             v == With(u, loss)
  <2>1. n \in Nat /\ n <= l
    <3>1. n = Write!MinOf(f, l)
      BY Zenon DEF Write!RtoLen
    <3> HIDE DEF f, l, n
    <3> QED BY <1>2, <1>3, <3>1, MinType, Zenon
  <2> HIDE DEF n
  <2>2. Good(u, wr) /\ u.c = c
    <3>1. u = Write!Put(w, w.c.una, Write!Buffered(w.c, 0, n), out) /\ n <= Len(w.c.sndb)
      BY <1>1, <2>1, Zenon
    <3>2. Good(u, wr) /\ u.c = w.c
      <4> HIDE DEF u, w, c, l, f
      <4> QED BY <1>1, <2>1, <3>1, FirstGood
    <3> QED BY <1>1, <3>2, Zenon
  <2>3. /\ loss \in TxRec /\ loss.una = c.una /\ loss.nxt = c.nxt /\ loss.sndb = c.sndb
        /\ loss.rto = c.rto /\ loss.state = c.state
    <3> DEFINE e == Write!tcp_loss_window(c, n)
               k == e.tries + 1
    <3>1. /\ e \in TxRec /\ e.una = c.una /\ e.nxt = c.nxt /\ e.sndb = c.sndb
          /\ e.rto = c.rto /\ e.state = c.state /\ e.tries \in Nat
      BY <1>2, <2>1, LossRec, TxFields, Zenon
    <3> HIDE DEF e
    <3>2. k \in Nat
      BY <3>1
    <3>3. loss = [e EXCEPT !.tries = k]
      BY Zenon DEF Write!Retry, e
    <3> HIDE DEF loss, k
    <3> QED BY <3>1, <3>2, <3>3, Zenon DEF TxRec
  <2> HIDE DEF loss, u
  <2>4. Good(v, wr) /\ v.c = loss
    <3>1. v = [u EXCEPT !.c = loss]
      BY Zenon DEF With
    <3> HIDE DEF v
    <3> QED BY <1>1, <2>2, <2>3, <3>1, GoodKept
  <2>5. Write!Becomes(v)
    BY <1>7, Zenon DEF With, u
  <2>6. v.c.nxt = wconn.nxt
    BY <2>3, <2>4, Zenon
  <2> HIDE DEF v
  <2> QED BY <1>1, <1>5, <2>4, <2>5, <2>6, Becoming, Zenon
<1>8. CASE c.sndb = <<>> /\ Write!Becomes(off)
  <2> DEFINE d == [c EXCEPT !.rto = "off"]
  <2>1. off = With(w, d)
    BY <1>1, <1>2, Zenon DEF With, TxWorld
  <2>2. d \in TxRec /\ d.una = c.una /\ d.nxt = c.nxt /\ d.sndb = c.sndb
    BY <1>2, Zenon DEF TxRec
  <2> HIDE DEF d
  <2>3. Write!InFlight(d) = f
    BY <2>2, Zenon DEF Write!InFlight
  <2>4. ~(f > 0)
    <3>1. l = 0
      BY <1>8
    <3> HIDE DEF l, f
    <3> QED BY <1>3, <3>1
  <2>5. ConnGood(d, wr)
    BY <1>2, <2>2, <2>3, <2>4, Zenon DEF ConnGood, Timed
  <2>6. wr <= wr
    BY <1>1
  <2>7. Follows(wr, w, wr, d)
    BY <1>1, <1>2, <2>2, <2>5, <2>6, Zenon DEF Follows
  <2> HIDE DEF off
  <2>8. Good(off, wr) /\ off.c = d
    BY <2>1, <2>7, GoodConn
  <2>9. off.c.nxt = wconn.nxt
    BY <2>2, <2>8, Zenon
  <2> QED BY <1>1, <1>5, <1>8, <2>8, <2>9, Becoming, Zenon
<1> QED BY <1>4, <1>6, <1>7, <1>8, Zenon

\* The persist timer.
LEMMA PersistStep ==
  ASSUME SendInv, Write!tcp_tick_persist
  PROVE  StepFine
<1> DEFINE w == Write!world
           wr == written
           c == wconn
           l == Len(c.sndb)
           f == Write!InFlight(c)
           off == [w EXCEPT !.c.persist = "off"]
<1>1. wr \in Nat /\ Good(w, wr) /\ w.c = c /\ w.p = wpeer
  BY WorldIs, Zenon DEF SendInv
<1>2. w \in TxWorld /\ c \in TxRec /\ ConnGood(c, wr) /\ l \in Nat
  BY <1>1, GoodNumbers, Zenon
<1>3. f \in Nat /\ f <= l
  BY <1>1, <1>2, ConnNumbers, Zenon
<1>4. PICK out \in TxOutcomes :
        \/ Write!Becomes(off)
        \/ ~(l <= f) /\ Write!Becomes(Write!Put(w, c.una, Write!Buffered(c, 0, 1), out))
  BY Zenon DEF Write!tcp_tick_persist
<1>5. written' = wr
  BY Zenon DEF Write!tcp_tick_persist
<1>6. CASE Write!Becomes(off)
  <2> DEFINE d == [c EXCEPT !.persist = "off"]
  <2>1. off = [w EXCEPT !.c = d]
    BY <1>1, <1>2, Zenon DEF TxWorld
  <2>2. /\ d \in TxRec /\ d.una = c.una /\ d.nxt = c.nxt /\ d.sndb = c.sndb
        /\ d.rto = c.rto /\ d.state = c.state
    BY <1>2, Zenon DEF TxRec
  <2> HIDE DEF d, off
  <2>3. Good(off, wr) /\ off.c = d
    <3> HIDE DEF w
    <3> QED BY <1>1, <2>1, <2>2, GoodKept
  <2>4. off.c.nxt = wconn.nxt
    BY <2>2, <2>3, Zenon
  <2> QED BY <1>1, <1>5, <1>6, <2>3, <2>4, Becoming, Zenon
<1>7. CASE ~(l <= f) /\ Write!Becomes(Write!Put(w, c.una, Write!Buffered(c, 0, 1), out))
  <2> DEFINE u == Write!Put(w, c.una, Write!Buffered(c, 0, 1), out)
  <2>1. 1 \in Nat /\ 1 <= l
    <3> HIDE DEF l, f
    <3> QED BY <1>2, <1>3, <1>7
  <2>2. Good(u, wr) /\ u.c = c
    <3>1. u = Write!Put(w, w.c.una, Write!Buffered(w.c, 0, 1), out) /\ 1 <= Len(w.c.sndb)
      BY <1>1, <2>1, Zenon
    <3>2. Good(u, wr) /\ u.c = w.c
      <4> HIDE DEF u, w, c, l, f
      <4> QED BY <1>1, <2>1, <3>1, FirstGood
    <3> QED BY <1>1, <3>2, Zenon
  <2>3. Write!Becomes(u) /\ u.c.nxt = wconn.nxt
    BY <1>7, <2>2, Zenon
  <2> HIDE DEF u
  <2> QED BY <1>1, <1>5, <2>2, <2>3, Becoming, Zenon
<1> QED BY <1>4, <1>6, <1>7, Zenon

LEMMA SendNext ==
  ASSUME SendInv, Write!Next
  PROVE  StepFine
<1>1. wconn.state \in {"ESTABLISHED", "FREE"}
  <2>1. Good(Write!world, written) /\ written \in Nat
    BY Zenon DEF SendInv
  <2> QED BY <2>1, GoodNumbers, TxFields, WorldIs, Zenon
<1>2. CASE \E n \in 1 .. TxMss : Write!tcp_send(n)
  BY <1>2, SendStep, Zenon
<1>3. CASE Write!PeerSends
  BY <1>3, PeerStep, Zenon
<1>4. CASE Write!tcp_tick_rto
  BY <1>4, RtoStep, Zenon
<1>5. CASE Write!tcp_tick_persist
  BY <1>5, PersistStep, Zenon
<1>6. ~Write!tcp_tick_timewait
  BY <1>1, Zenon DEF Write!tcp_tick_timewait
<1>7. ~ \E when \in {} : Write!tcp_close(when)
  BY Zenon
<1> QED BY <1>2, <1>3, <1>4, <1>5, <1>6, <1>7, Zenon DEF Write!Next

LEMMA SendStutter ==
  ASSUME SendInv, UNCHANGED Write!vars
  PROVE  SendInv'
  BY Zenon DEF SendInv, Write!vars, Write!world, Good, ConnGood, PeerGood, Timed, Write!InFlight

LEMMA SendGood == SendInv => StreamSent
<1> SUFFICES ASSUME SendInv PROVE StreamSent
  BY Zenon
<1>1. written \in Nat /\ Good(Write!world, written)
  BY Zenon DEF SendInv
<1>2. /\ wpeer.stream = Write!Positions(0, Len(wpeer.stream)) /\ Len(wpeer.stream) <= written
      /\ ConnGood(wconn, written)
  BY <1>1, GoodNumbers, WorldIs, Zenon
<1>3. Write!StreamSent
  BY <1>2, Zenon DEF Write!StreamSent, Write!AckedBytes, ConnGood, SeqOf
<1>4. Write!TimerArmed
  BY <1>2, Zenon DEF Write!TimerArmed, ConnGood, Timed
<1> QED BY <1>3, <1>4, Zenon DEF StreamSent

LEMMA AlwaysSendInv == Write!Spec => []SendInv
<1>1. SendInv /\ [Write!Next]_Write!vars => SendInv'
  BY SendNext, SendStutter, Zenon DEF StepFine
<1> QED BY <1>1, SendInit, PTL DEF Write!Spec

\* What tcp_send() accepted reaches the peer as it was written, in any order of
\* losses, retransmissions of the two timers and of duplicate acknowledgements,
\* late acknowledgements and windows; sndb starts at snd_una, and what is in
\* flight has the timer of tcp_tick() running.  For buffers, segments, windows
\* and retry limits of any size, and across the wrap of sequence numbers.
THEOREM PeerGetsStream == Write!Spec => []StreamSent
<1>1. SendInv => StreamSent
  BY SendGood, Zenon
<1> QED BY <1>1, AlwaysSendInv, PTL

\* Only tcp_xmit_pending() moves snd_nxt on, and it stays inside the window
\* advertised last and the congestion window, whichever of tcp_send(), an
\* acknowledgement or a duplicate called it.
THEOREM SentInWindow == Write!Spec => WindowRespected
<1> DEFINE Inside ==
             wconn'.state = "ESTABLISHED" /\ Write!tcp_seq_after(wconn'.nxt, wconn.nxt)
               => Write!InFlight(wconn') <= Write!SendWindow(wconn')
<1>1. ASSUME SendInv PROVE ~Write!tcp_seq_after(wconn.nxt, wconn.nxt)
  <2>1. wconn \in TxRec
    <3>1. Good(Write!world, written) /\ written \in Nat
      BY <1>1, Zenon DEF SendInv
    <3> QED BY <3>1, GoodNumbers, WorldIs, Zenon
  <2>2. wconn.nxt - wconn.nxt = 0
    <3> DEFINE n == wconn.nxt
    <3>1. n \in TxSeqs
      BY <2>1, TxFields, Zenon
    <3> HIDE DEF n
    <3>2. n - n = 0
      BY <3>1, ModNumber DEF TxSeqs
    <3> QED BY <3>2, Zenon DEF n
  <2> DEFINE h == (Write!Mod \div 2) - 1
  <2>3. 0 \notin 1 .. h
    <3>1. h \in Int
      BY ModNumber
    <3> HIDE DEF h
    <3> QED BY <3>1
  <2> QED BY <2>2, <2>3, ZeroMod, Zenon DEF Write!tcp_seq_after
<1>2. SendInv /\ [Write!Next]_Write!vars => [Inside]_Write!vars
  <2> SUFFICES ASSUME SendInv, Write!Next PROVE Inside
    BY Zenon
  <2>1. StepFine
    BY SendNext, Zenon
  <2> QED BY <1>1, <2>1, Zenon DEF StepFine
<1>3. Write!Spec => [][Inside]_Write!vars
  BY <1>2, AlwaysSendInv, PTL DEF Write!Spec
<1> QED BY <1>3, Zenon DEF WindowRespected, Write!WindowRespected

=============================================================================
