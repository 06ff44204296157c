---------------------------- MODULE DeviceProofs ----------------------------
(***************************************************************************)
(* The rings and transfers of the drivers (Devices), for rings, batches    *)
(* and disks of any size and without a bound on what arrives.              *)
(***************************************************************************)
EXTENDS Devices, SequenceTheorems, TLAPS

-----------------------------------------------------------------------------
(* Arithmetic modulo n, the size of a ring.                                *)

LEMMA ModType ==
  ASSUME NEW n \in Nat, n > 0, NEW a \in Int
  PROVE  a % n \in Int /\ 0 <= a % n /\ a % n < n
  OBVIOUS

\* The remainder, and that it is the only one.
LEMMA ModOf ==
  ASSUME NEW n \in Nat, n > 0, NEW a \in Int
  PROVE  \E q \in Int : a = n * q + (a % n)
<1>1. a \div n \in Int
  OBVIOUS
<1>2. a = n * (a \div n) + (a % n)
  OBVIOUS
<1> QED BY <1>1, <1>2, Zenon

LEMMA Multiple ==
  ASSUME NEW n \in Nat, n > 0, NEW p \in Int, NEW q \in Int, NEW r \in Int, NEW s \in Int,
         0 <= r, r < n, 0 <= s, s < n, n * p + r = n * q + s
  PROVE  r = s
<1>1. n * (p - q) = s - r
  OBVIOUS
<1> DEFINE d == p - q
<1>2. d \in Int /\ n * d = s - r
  BY <1>1
<1> HIDE DEF d
<1>3. ~(d >= 1)
  <2> SUFFICES ASSUME d >= 1 PROVE FALSE
    BY Zenon
  <2>1. n * d >= n
    BY <1>2
  <2> QED BY <1>2, <2>1
<1>4. ~(d <= -1)
  <2> SUFFICES ASSUME d <= -1 PROVE FALSE
    BY Zenon
  <2>1. n * d <= -n
    BY <1>2
  <2> QED BY <1>2, <2>1
<1>5. d = 0
  BY <1>2, <1>3, <1>4
<1> QED BY <1>2, <1>5

LEMMA ModUnique ==
  ASSUME NEW n \in Nat, n > 0, NEW a \in Int, NEW q \in Int, NEW r \in Int,
         0 <= r, r < n, a = n * q + r
  PROVE  a % n = r
<1>1. a \in Int
  BY Zenon
<1>2. PICK p \in Int : a = n * p + (a % n)
  BY <1>1, ModOf, Zenon
<1>3. a % n \in Int /\ 0 <= a % n /\ a % n < n
  BY <1>1
<1>4. a % n = r
  <2> DEFINE s == a % n
  <2>1. n * p + s = n * q + r
    BY <1>2, Zenon
  <2> HIDE DEF s
  <2>2. s \in Int /\ 0 <= s /\ s < n
    BY <1>3, Zenon DEF s
  <2>3. s = r
    BY <2>1, <2>2, Multiple, Zenon
  <2> QED BY <2>3, Zenon DEF s
<1> QED BY <1>4, Zenon

\* Indices may be reduced before a step, or after it.
LEMMA ModPlus ==
  ASSUME NEW n \in Nat, n > 0, NEW a \in Int, NEW b \in Int
  PROVE  ((a % n) + b) % n = (a + b) % n
<1>1. PICK p \in Int : a = n * p + (a % n)
  BY ModOf, Zenon
<1> DEFINE c == (a % n) + b
<1>2. c \in Int
  OBVIOUS
<1>3. PICK q \in Int : c = n * q + (c % n)
  BY <1>2, ModOf, Zenon
<1> DEFINE r == c % n
<1>4. r \in Int /\ 0 <= r /\ r < n
  BY <1>2
<1>5. a + b = n * p + c
  BY <1>1
<1> HIDE DEF c
<1>6. c = n * q + r
  BY <1>3, Zenon
<1> HIDE DEF r
<1>7. a + b = n * (p + q) + r
  BY <1>2, <1>4, <1>5, <1>6
<1>8. (a + b) % n = r
  <2>1. a + b \in Int /\ p + q \in Int
    OBVIOUS
  <2> QED BY <1>4, <1>7, <2>1, ModUnique, Zenon
<1> QED BY <1>8, Zenon DEF r, c

LEMMA ModMinus ==
  ASSUME NEW n \in Nat, n > 0, NEW a \in Int, NEW b \in Int
  PROVE  (a - (b % n)) % n = (a - b) % n
<1>1. PICK p \in Int : b = n * p + (b % n)
  BY ModOf, Zenon
<1> DEFINE c == a - (b % n)
<1>2. c \in Int
  OBVIOUS
<1>3. PICK q \in Int : c = n * q + (c % n)
  BY <1>2, ModOf, Zenon
<1> DEFINE r == c % n
<1>4. r \in Int /\ 0 <= r /\ r < n
  BY <1>2
<1>5. a - b = c - n * p
  BY <1>1
<1> HIDE DEF c
<1>6. c = n * q + r
  BY <1>3, Zenon
<1> HIDE DEF r
<1>7. a - b = n * (q - p) + r
  BY <1>2, <1>4, <1>5, <1>6
<1>8. (a - b) % n = r
  <2>1. a - b \in Int /\ q - p \in Int
    OBVIOUS
  <2> QED BY <1>4, <1>7, <2>1, ModUnique, Zenon
<1> QED BY <1>8, Zenon DEF r, c

LEMMA ModSmall ==
  ASSUME NEW n \in Nat, n > 0, NEW a \in Int, 0 <= a, a < n
  PROVE  a % n = a
  OBVIOUS

LEMMA ModWrap ==
  ASSUME NEW n \in Nat, n > 0, NEW a \in Int
  PROVE  (a + n) % n = a % n
<1>1. PICK p \in Int : a = n * p + (a % n)
  BY ModOf, Zenon
<1> DEFINE r == a % n
<1>2. r \in Int /\ 0 <= r /\ r < n
  OBVIOUS
<1>3. a = n * p + r
  BY <1>1, Zenon
<1> HIDE DEF r
<1>4. a + n = n * (p + 1) + r
  BY <1>2, <1>3
<1>5. (a + n) % n = r
  <2>1. a + n \in Int /\ p + 1 \in Int
    OBVIOUS
  <2> QED BY <1>2, <1>4, <2>1, ModUnique, Zenon
<1> QED BY <1>5, Zenon DEF r

\* Positions less than n apart have different slots.
LEMMA ModInjective ==
  ASSUME NEW n \in Nat, n > 0, NEW a \in Int, NEW b \in Int, a % n = b % n,
         a - b < n, b - a < n
  PROVE  a = b
<1>1. PICK p \in Int : a = n * p + (a % n)
  BY ModOf, Zenon
<1>2. PICK q \in Int : b = n * q + (b % n)
  BY ModOf, Zenon
<1> DEFINE r == a % n
           d == p - q
<1>3. r \in Int /\ a = n * p + r /\ b = n * q + r
  BY <1>1, <1>2
<1> HIDE DEF r
<1>4. d \in Int /\ n * d = a - b
  BY <1>3
<1> HIDE DEF d
<1>5. ~(d >= 1)
  <2> SUFFICES ASSUME d >= 1 PROVE FALSE
    BY Zenon
  <2>1. n * d >= n
    BY <1>4
  <2> QED BY <1>4, <2>1
<1>6. ~(d <= -1)
  <2> SUFFICES ASSUME d <= -1 PROVE FALSE
    BY Zenon
  <2>1. n * d <= -n
    BY <1>4
  <2> QED BY <1>4, <2>1
<1>7. d = 0
  BY <1>4, <1>5, <1>6
<1> QED BY <1>4, <1>7


-----------------------------------------------------------------------------
(* The receive ring of the network card.                                   *)

\* Position k of the stream of packets has slot k % RX_N.  The RX_N positions
\* from the first packet not handled on are the ring: the packets that the card
\* has stored, and free descriptors.  One descriptor is never given to the card.
RxInv ==
  /\ received \in Nat /\ handled \in Seq(Nat) /\ rx \in [Nic!Rx -> Nat]
  /\ Len(handled) <= received /\ received - Len(handled) < RX_N
  /\ rx_last = Len(handled) % RX_N
  /\ rdh = received % RX_N
  /\ rdt = (Len(handled) + RX_N - 1) % RX_N
  /\ \A k \in Nat : Len(handled) <= k /\ k < Len(handled) + RX_N =>
       rx[k % RX_N] = IF k < received THEN k + 1 ELSE 0
  /\ \A j \in 1 .. Len(handled) : handled[j] = j

LEMMA RxInit == Nic!Init => RxInv
<1> SUFFICES ASSUME Nic!Init PROVE RxInv
  BY Zenon
<1> USE DevicesAssumption
<1>1. /\ received = 0 /\ handled = <<>> /\ rx = [i \in Nic!Rx |-> 0]
      /\ rx_last = 0 /\ rdh = 0 /\ rdt = RX_N - 1
  BY Zenon DEF Nic!Init, Nic!Empty
<1>2. Len(handled) = 0 /\ handled \in Seq(Nat) /\ rx \in [Nic!Rx -> Nat]
  BY <1>1
<1>3. 0 % RX_N = 0 /\ (RX_N - 1) % RX_N = RX_N - 1
  BY ModSmall
<1>4. \A k \in Nat : k < RX_N => rx[k % RX_N] = 0
  BY <1>1, ModSmall DEF Nic!Rx
<1>5. Len(handled) + RX_N - 1 = RX_N - 1
  BY <1>2
<1>6. /\ rx_last = Len(handled) % RX_N /\ rdh = received % RX_N
      /\ rdt = (Len(handled) + RX_N - 1) % RX_N
  BY <1>1, <1>2, <1>3, <1>5, Zenon
<1>7. \A k \in Nat : Len(handled) <= k /\ k < Len(handled) + RX_N =>
        rx[k % RX_N] = IF k < received THEN k + 1 ELSE 0
  <2> SUFFICES ASSUME NEW k \in Nat, k < Len(handled) + RX_N
               PROVE  rx[k % RX_N] = IF k < received THEN k + 1 ELSE 0
    BY Zenon
  <2>1. k < RX_N /\ ~(k < received)
    BY <1>1, <1>2
  <2> QED BY <1>4, <2>1, Zenon
<1>8. received \in Nat /\ Len(handled) <= received /\ received - Len(handled) < RX_N
  BY <1>1, <1>2
<1>9. \A j \in 1 .. Len(handled) : handled[j] = j
  BY <1>2
<1> QED
  BY <1>2, <1>6, <1>7, <1>8, <1>9, Zenon DEF RxInv

LEMMA RxPlace ==
  ASSUME NEW k \in Nat
  PROVE  k % RX_N \in Nic!Rx
  BY DevicesAssumption, ModType DEF Nic!Rx

\* The card stores packet `received' at RDH, which is never the descriptor of a
\* packet that waits.
LEMMA RxReceive ==
  ASSUME RxInv, Nic!Receive
  PROVE  RxInv'
<1> DEFINE H == Len(handled)
<1> USE DevicesAssumption
<1>1. /\ received' = received + 1 /\ handled' = handled /\ rdh # rdt
      /\ rx' = [rx EXCEPT ![rdh] = received + 1]
      /\ rdh' = (rdh + 1) % RX_N /\ rdt' = rdt /\ rx_last' = rx_last
  BY Zenon DEF Nic!Receive
<1>2. H \in Nat /\ received \in Nat /\ H <= received /\ received < H + RX_N
  BY DEF RxInv
<1>3. received # H + RX_N - 1
  BY <1>1, Zenon DEF RxInv
<1>4. rdh' = (received + 1) % RX_N
  <2>1. rdh' = ((received % RX_N) + 1) % RX_N
    BY <1>1, Zenon DEF RxInv
  <2>2. received \in Int /\ 1 \in Int /\ RX_N \in Nat /\ RX_N > 0
    BY <1>2
  <2> QED BY <2>1, <2>2, ModPlus, Zenon
<1>5. rdh \in Nic!Rx /\ rx' \in [Nic!Rx -> Nat]
  <2>1. received % RX_N \in Nic!Rx
    BY <1>2, RxPlace, Zenon
  <2>2. rdh \in Nic!Rx /\ rx \in [Nic!Rx -> Nat]
    BY <2>1, Zenon DEF RxInv
  <2>3. received + 1 \in Nat
    BY <1>2
  <2> QED BY <1>1, <2>2, <2>3, Zenon
<1>6. ASSUME NEW k \in Nat, H <= k, k < H + RX_N
      PROVE  rx'[k % RX_N] = IF k < received + 1 THEN k + 1 ELSE 0
  <2>1. k % RX_N \in Nic!Rx
    BY RxPlace, Zenon
  <2>2. CASE k = received
    BY <1>1, <1>5, <2>1, <2>2 DEF RxInv
  <2>3. CASE k # received
    <3>1. k % RX_N # received % RX_N
      <4>1. /\ k \in Int /\ received \in Int /\ RX_N \in Nat /\ RX_N > 0
            /\ k - received < RX_N /\ received - k < RX_N
        BY <1>2, <1>6
      <4> QED BY <2>3, <4>1, ModInjective, Zenon
    <3>2. rx'[k % RX_N] = rx[k % RX_N]
      BY <1>1, <1>5, <2>1, <3>1, Zenon DEF RxInv
    <3>3. rx[k % RX_N] = IF k < received THEN k + 1 ELSE 0
      BY <1>6, Zenon DEF RxInv
    <3> QED BY <1>2, <2>3, <3>2, <3>3
  <2> QED BY <2>2, <2>3, Zenon
<1>7. H <= received + 1 /\ received + 1 - H < RX_N /\ received + 1 \in Nat
  BY <1>2, <1>3
<1> QED
  BY <1>1, <1>4, <1>5, <1>6, <1>7, SMTT(30) DEF RxInv

\* e1000_poll() takes the n oldest packets, and returns their descriptors.
LEMMA RxPoll ==
  ASSUME RxInv, Nic!e1000_poll
  PROVE  RxInv'
<1> DEFINE H == Len(handled)
<1> USE DevicesAssumption
<1>1. PICK n \in 1 .. E1000_BATCH_LIMIT :
        /\ n <= RX_N /\ Nic!Ready(n)
        /\ handled' = handled \o [j \in 1 .. n |-> rx[Nic!Slot(j - 1)]]
        /\ rx' = Nic!Released(n)
        /\ rx_last' = Nic!Slot(n)
        /\ rdt' = Nic!Returned(n)
        /\ UNCHANGED <<rdh, received>>
  BY Zenon DEF Nic!e1000_poll
<1>2. H \in Nat /\ received \in Nat /\ H <= received /\ received < H + RX_N /\ n \in Nat /\ n >= 1
  BY DEF RxInv
<1>3. \A j \in Nat : Nic!Slot(j) = (H + j) % RX_N
  <2> SUFFICES ASSUME NEW j \in Nat PROVE ((H % RX_N) + j) % RX_N = (H + j) % RX_N
    BY Zenon DEF RxInv, Nic!Slot
  <2>1. H \in Int /\ j \in Int /\ RX_N \in Nat /\ RX_N > 0
    BY <1>2
  <2> QED BY <2>1, ModPlus, Zenon
<1>4. \A j \in 0 .. n - 1 : H + j < received /\ rx[Nic!Slot(j)] = H + j + 1
  <2> SUFFICES ASSUME NEW j \in 0 .. n - 1
               PROVE  H + j < received /\ rx[Nic!Slot(j)] = H + j + 1
    BY Zenon
  <2>1. H + j \in Nat /\ H <= H + j /\ H + j < H + RX_N
    BY <1>1, <1>2
  <2>2. rx[(H + j) % RX_N] = IF H + j < received THEN H + j + 1 ELSE 0
    BY <2>1, Zenon DEF RxInv
  <2>3. rx[Nic!Slot(j)] # 0
    BY <1>1, Zenon DEF Nic!Ready, Nic!Empty
  <2>4. Nic!Slot(j) = (H + j) % RX_N
    BY <1>3
  <2> QED BY <2>2, <2>3, <2>4, Zenon
<1>5. H + n <= received
  <2>1. n - 1 \in 0 .. n - 1
    BY <1>2
  <2> QED BY <1>2, <1>4, <2>1
<1> DEFINE new == [j \in 1 .. n |-> rx[Nic!Slot(j - 1)]]
<1>6. \A j \in 1 .. n : new[j] = H + j
  <2> SUFFICES ASSUME NEW j \in 1 .. n PROVE rx[Nic!Slot(j - 1)] = H + j
    BY Zenon
  <2>1. j - 1 \in 0 .. n - 1
    BY <1>2
  <2> QED BY <1>2, <1>4, <2>1
<1>7. new \in Seq(Nat) /\ Len(new) = n
  <2>1. \A j \in 1 .. n : new[j] \in Nat
    BY <1>2, <1>6
  <2>2. new \in [1 .. n -> Nat]
    BY <2>1, Zenon
  <2> HIDE DEF new
  <2> QED BY <1>2, <2>2
<1>8. handled' = handled \o new
  BY <1>1, Zenon
<1> HIDE DEF new
<1>9. /\ handled' \in Seq(Nat) /\ Len(handled') = H + n
      /\ \A j \in 1 .. H + n : handled'[j] = IF j <= H THEN handled[j] ELSE new[j - H]
  <2>1. handled \in Seq(Nat) /\ Len(handled) = H
    BY <1>2, Zenon DEF RxInv
  <2>2. /\ handled \o new \in Seq(Nat) /\ Len(handled \o new) = Len(handled) + Len(new)
        /\ \A j \in 1 .. Len(handled) + Len(new) :
             (handled \o new)[j] = IF j <= Len(handled) THEN handled[j] ELSE new[j - Len(handled)]
    BY <1>7, <2>1, ConcatProperties, Zenon
  <2> QED BY <1>7, <1>8, <2>1, <2>2, Zenon
<1>10. \A j \in 1 .. Len(handled') : handled'[j] = j
  <2> SUFFICES ASSUME NEW j \in 1 .. H + n PROVE handled'[j] = j
    BY <1>9, Zenon
  <2>1. CASE j <= H
    <3>1. j \in 1 .. H
      BY <1>2, <2>1
    <3>2. handled[j] = j
      BY <3>1, Zenon DEF RxInv
    <3> QED BY <1>9, <2>1, <3>2, Zenon
  <2>2. CASE j > H
    <3>1. j - H \in 1 .. n
      BY <1>2, <2>2
    <3>2. handled'[j] = new[j - H]
      BY <1>2, <1>9, <2>2
    <3> QED BY <1>2, <1>6, <3>1, <3>2
  <2> QED BY <1>2, <2>1, <2>2
<1>11. rx_last' = (H + n) % RX_N
  BY <1>1, <1>2, <1>3, Zenon
<1>12. rdt' = (H + n + RX_N - 1) % RX_N
  <2>1. n - 1 \in Nat /\ H + (n - 1) = H + n - 1 /\ (H + n - 1) + RX_N = H + n + RX_N - 1
    BY <1>2
  <2>2. rdt' = (H + (n - 1)) % RX_N
    BY <1>1, <1>3, <2>1, Zenon DEF Nic!Returned
  <2>3. ((H + n - 1) + RX_N) % RX_N = (H + n - 1) % RX_N
    <3>1. H + n - 1 \in Int /\ RX_N \in Nat /\ RX_N > 0
      BY <1>2
    <3> QED BY <3>1, ModWrap, Zenon
  <2> QED BY <2>1, <2>2, <2>3, Zenon
<1>13. \A i \in Nic!Rx : rx'[i] = IF (i - H) % RX_N < n THEN 0 ELSE rx[i]
  <2>1. \A i \in Nic!Rx : (i - rx_last) % RX_N = (i - H) % RX_N
    <3> SUFFICES ASSUME NEW i \in Nic!Rx PROVE (i - (H % RX_N)) % RX_N = (i - H) % RX_N
      BY Zenon DEF RxInv
    <3>1. i \in Int /\ H \in Int /\ RX_N \in Nat /\ RX_N > 0
      BY <1>2 DEF Nic!Rx
    <3> QED BY <3>1, ModMinus, Zenon
  <2> QED BY <1>1, <2>1, Zenon DEF Nic!Released, Nic!Empty
<1>14. rx' \in [Nic!Rx -> Nat]
  BY <1>1, <1>13, Zenon DEF Nic!Released, Nic!Empty, RxInv
<1>15. ASSUME NEW k \in Nat, H + n <= k, k < H + n + RX_N
       PROVE  rx'[k % RX_N] = IF k < received THEN k + 1 ELSE 0
  <2>1. k % RX_N \in Nic!Rx
    BY RxPlace, Zenon
  <2>2. ((k % RX_N) - H) % RX_N = (k - H) % RX_N
    <3>1. ((k % RX_N) + (-H)) % RX_N = (k + (-H)) % RX_N
      <4>1. k \in Int /\ -H \in Int /\ RX_N \in Nat /\ RX_N > 0
        BY <1>2
      <4> QED BY <4>1, ModPlus, Zenon
    <3>2. (k % RX_N) + (-H) = (k % RX_N) - H /\ k + (-H) = k - H
      BY <1>2, <2>1, Zenon DEF Nic!Rx
    <3> QED BY <3>1, <3>2, Zenon
  <2>3. CASE k < H + RX_N
    <3>1. (k - H) % RX_N = k - H /\ ~(k - H < n)
      BY <1>2, <1>15, <2>3, ModSmall
    <3>2. rx'[k % RX_N] = rx[k % RX_N]
      BY <1>13, <2>1, <2>2, <3>1, Zenon
    <3>3. H <= k
      BY <1>2, <1>15
    <3>4. rx[k % RX_N] = IF k < received THEN k + 1 ELSE 0
      BY <2>3, <3>3, Zenon DEF RxInv
    <3> QED BY <3>2, <3>4, Zenon
  <2>4. CASE k >= H + RX_N
    <3>1. (k - H - RX_N) % RX_N = k - H - RX_N /\ k - H - RX_N < n
      <4>1. 0 <= k - H - RX_N /\ k - H - RX_N < n /\ k - H - RX_N < RX_N /\ k - H - RX_N \in Int
        BY <1>1, <1>2, <1>15, <2>4
      <4>2. RX_N \in Nat /\ RX_N > 0
        OBVIOUS
      <4> QED BY <4>1, <4>2, ModSmall, Zenon
    <3>2. (k - H) % RX_N = k - H - RX_N
      <4>1. (k - H - RX_N) + RX_N = k - H /\ k - H - RX_N \in Int
        BY <1>2
      <4>2. ((k - H - RX_N) + RX_N) % RX_N = (k - H - RX_N) % RX_N
        <5>1. RX_N \in Nat /\ RX_N > 0
          OBVIOUS
        <5> QED BY <4>1, <5>1, ModWrap, Zenon
      <4> QED BY <3>1, <4>1, <4>2, Zenon
    <3>3. rx'[k % RX_N] = 0
      BY <1>13, <2>1, <2>2, <3>1, <3>2, Zenon
    <3> QED BY <1>2, <2>4, <3>3
  <2> QED BY <1>2, <2>3, <2>4
<1>16. received' = received /\ rdh' = rdh /\ received - (H + n) < RX_N
  BY <1>1, <1>2
<1> QED
  BY <1>2, <1>5, <1>9, <1>10, <1>11, <1>12, <1>14, <1>15, <1>16, Zenon DEF RxInv

LEMMA RxUnchanged == RxInv /\ UNCHANGED Nic!rxVars => RxInv'
  BY Zenon DEF RxInv, Nic!rxVars

\* HandledOnce: e1000_poll() gives every packet to the stack once, in the order
\* of arrival, and when all are handled the card has a descriptor for the next;
\* for every ring of two descriptors or more, every batch limit, and any number
\* of packets, as long as the poll is not re-entered.
THEOREM HandledOnceAlways == Nic!Spec => []HandledOnce
<1>1. RxInv /\ [Nic!Next]_Nic!vars => RxInv'
  <2> SUFFICES ASSUME RxInv, [Nic!Next]_Nic!vars PROVE RxInv'
    BY Zenon
  <2>1. CASE Nic!Receive
    BY <2>1, RxReceive, Zenon
  <2>2. CASE Nic!e1000_poll
    BY <2>2, RxPoll, Zenon
  <2>3. CASE Nic!TxNext
    BY <2>3, RxUnchanged, Zenon DEF Nic!TxNext, Nic!e1000_tx_submit, Nic!Transmit,
       Nic!slow_alloc, Nic!slow_write, Nic!slow_load, Nic!slow_publish, Nic!slow_advance
  <2>4. CASE UNCHANGED Nic!vars
    BY <2>4, RxUnchanged, Zenon DEF Nic!vars
  <2> QED BY <2>1, <2>2, <2>3, <2>4, Zenon DEF Nic!Next, Nic!RxNext
<1>2. RxInv => HandledOnce
  <2> SUFFICES ASSUME RxInv PROVE HandledOnce
    BY Zenon
  <2>1. Nic!HandledOnce
    BY DEF RxInv, Nic!HandledOnce
  <2>2. ASSUME Len(handled) = received PROVE rdh # rdt
    <3> DEFINE H == Len(handled)
    <3>1. /\ H \in Int /\ H + RX_N - 1 \in Int /\ RX_N \in Nat /\ RX_N > 0
          /\ H - (H + RX_N - 1) < RX_N /\ (H + RX_N - 1) - H < RX_N /\ H # H + RX_N - 1
      BY DevicesAssumption DEF RxInv
    <3>2. H % RX_N # (H + RX_N - 1) % RX_N
      BY <3>1, ModInjective, Zenon
    <3> QED BY <2>2, <3>2, Zenon DEF RxInv
  <2> QED BY <2>1, <2>2, Zenon DEF HandledOnce, Nic!RoomWhenDrained
<1> QED BY RxInit, <1>1, <1>2, PTL DEF Nic!Spec

-----------------------------------------------------------------------------
(* The transmit ring.                                                      *)

\* The ring when n frames have been given to the card.  The TX_N positions from
\* the first frame not sent on are its descriptors: the frames that wait for the
\* card, whose DD is clear, and free buffers.
Waiting(i, k) == tx[i].frame = k + 1 /\ tx[i].dd = FALSE
Ring(n) ==
  /\ sent \in Seq(Nat) /\ tx \in [Nic!Tx -> [frame : Nat, dd : BOOLEAN]]
  /\ Len(sent) <= n /\ n <= Len(sent) + TX_N
  /\ tdh = Len(sent) % TX_N /\ tdt = n % TX_N
  /\ \A k \in Nat : Len(sent) <= k /\ k < Len(sent) + TX_N =>
       /\ k < n => Waiting(k % TX_N, k)
       /\ ~(k < n) => tx[k % TX_N].dd = TRUE
  /\ \A j \in 1 .. Len(sent) : sent[j] = j

\* No process is sending; p is the only one, and its buffer is that of tx_next.
Quiet(n) ==
  /\ \A p \in Senders : slow[p].at = "out"
  /\ framed = n /\ tx_next = n % TX_N
Writing(n) == framed = n /\ tx_next = n % TX_N /\ tx[tx_next].dd = TRUE
Written(n) ==
  /\ framed = n + 1 /\ tx_next = n % TX_N
  /\ tx[tx_next].frame = n + 1 /\ tx[tx_next].dd = TRUE
Published(n) == framed = n /\ Nic!Following(tx_next) = n % TX_N
Alone(p, n) ==
  /\ \A q \in Senders : q # p => slow[q].at = "out"
  /\ slow[p].buf = tx_next
  /\ \/ slow[p].at = "write" /\ Writing(n)
     \/ slow[p].at = "load" /\ Written(n)
     \/ slow[p].at = "publish" /\ Written(n)
     \/ slow[p].at = "advance" /\ Published(n)

Places == {"out", "write", "load", "publish", "advance"}
SlowType == [at : Places, buf : Nic!Tx]
TxOk ==
  /\ slow \in [Senders -> SlowType]
  /\ \E n \in Nat : Ring(n) /\ (Quiet(n) \/ \E p \in Senders : Alone(p, n))
TxInv == crossed \/ TxOk

LEMMA TxInit == Nic!Init => TxInv
<1> SUFFICES ASSUME Nic!Init PROVE TxInv
  BY Zenon
<1> USE DevicesAssumption
<1>1. /\ framed = 0 /\ sent = <<>> /\ tdh = 0 /\ tdt = 0 /\ tx_next = 0 /\ crossed = FALSE
      /\ tx = [i \in Nic!Tx |-> [frame |-> 0, dd |-> TRUE]]
      /\ slow = [p \in Senders |-> [at |-> "out", buf |-> 0]]
  BY Zenon DEF Nic!Init, Nic!NoSend
<1>2. Len(sent) = 0 /\ sent \in Seq(Nat)
  BY <1>1
<1>3. tx \in [Nic!Tx -> [frame : Nat, dd : BOOLEAN]]
  BY <1>1, Zenon
<1>4. \A k \in Nat : tx[k % TX_N].dd = TRUE
  <2> SUFFICES ASSUME NEW k \in Nat PROVE tx[k % TX_N].dd = TRUE
    BY Zenon
  <2>1. k % TX_N \in Nic!Tx
    BY ModType DEF Nic!Tx
  <2> QED BY <1>1, <2>1, Zenon
<1>5. tdh = Len(sent) % TX_N /\ tdt = 0 % TX_N /\ tx_next = 0 % TX_N
  BY <1>1, <1>2, ModSmall
<1>6. /\ Len(sent) <= 0 /\ 0 <= Len(sent) + TX_N
      /\ \A k \in Nat : ~(k < 0)
      /\ \A j \in 1 .. Len(sent) : sent[j] = j
  BY <1>1, <1>2
<1>7. Ring(0)
  BY <1>2, <1>3, <1>4, <1>5, <1>6, Zenon DEF Ring
<1>8. Quiet(0)
  BY <1>1, <1>5, Zenon DEF Quiet
<1>9. slow \in [Senders -> SlowType] /\ 0 \in Nat
  BY <1>1 DEF SlowType, Places, Nic!Tx
<1> QED
  BY <1>7, <1>8, <1>9, Zenon DEF TxInv, TxOk

\* A frame goes to the card: descriptor n of the stream was free, so fewer than
\* TX_N frames were waiting.
LEMMA RingPublish ==
  ASSUME NEW n \in Nat, Ring(n), tx[n % TX_N].dd = TRUE,
         sent' = sent, tdh' = tdh, tdt' = (n + 1) % TX_N,
         tx' \in [Nic!Tx -> [frame : Nat, dd : BOOLEAN]],
         tx'[n % TX_N].frame = n + 1, tx'[n % TX_N].dd = FALSE,
         \A i \in Nic!Tx : i # n % TX_N => tx'[i] = tx[i]
  PROVE  Ring(n + 1)'
<1> DEFINE T == Len(sent)
<1> USE DevicesAssumption
<1>1. T \in Nat /\ T <= n /\ n <= T + TX_N
  BY DEF Ring
<1>2. n # T + TX_N
  <2> SUFFICES ASSUME n = T + TX_N PROVE FALSE
    BY Zenon
  <2>1. T \in Int /\ TX_N \in Nat /\ TX_N > 0
    BY <1>1
  <2>2. (T + TX_N) % TX_N = T % TX_N
    BY <2>1, ModWrap, Zenon
  <2>3. T < n /\ T < T + TX_N /\ T <= T
    BY <1>1
  <2>4. tx[T % TX_N].dd = FALSE
    BY <1>1, <2>3, Zenon DEF Ring, Waiting
  <2>5. n % TX_N = T % TX_N
    BY <2>2, Zenon
  <2> QED BY <2>4, <2>5, Zenon
<1>3. ASSUME NEW k \in Nat, T <= k, k < T + TX_N
      PROVE  /\ k < n + 1 => Waiting(k % TX_N, k)'
             /\ ~(k < n + 1) => tx'[k % TX_N].dd = TRUE
  <2>1. k % TX_N \in Nic!Tx
    BY ModType DEF Nic!Tx
  <2>2. CASE k = n
    <3>1. k < n + 1
      BY <2>2
    <3> QED BY <2>2, <3>1, Zenon DEF Waiting
  <2>3. CASE k # n
    <3>1. k % TX_N # n % TX_N
      <4>1. /\ k \in Int /\ n \in Int /\ TX_N \in Nat /\ TX_N > 0
            /\ k - n < TX_N /\ n - k < TX_N
        BY <1>1, <1>2, <1>3, SMTT(30)
      <4> QED BY <2>3, <4>1, ModInjective, Zenon
    <3>2. tx'[k % TX_N] = tx[k % TX_N]
      BY <2>1, <3>1, Zenon
    <3>3. /\ k < n => Waiting(k % TX_N, k)
          /\ ~(k < n) => tx[k % TX_N].dd = TRUE
      BY <1>3, Zenon DEF Ring
    <3>4. k < n + 1 <=> k < n
      BY <2>3
    <3> QED BY <3>2, <3>3, <3>4, Zenon DEF Waiting
  <2> QED BY <2>2, <2>3, Zenon
<1>4. T <= n + 1 /\ n + 1 <= T + TX_N
  BY <1>1, <1>2
<1> QED
  BY <1>3, <1>4, Zenon DEF Ring

\* The card sends the frame at TDH, the oldest, and sets its DD.
LEMMA RingTransmit ==
  ASSUME NEW n \in Nat, Ring(n), Nic!Transmit
  PROVE  /\ Ring(n)'
         /\ \A i \in Nic!Tx : tx[i].dd = TRUE => tx'[i].dd = TRUE /\ tx'[i].frame = tx[i].frame
<1> DEFINE T == Len(sent)
<1> USE DevicesAssumption
<1>1. /\ tdt' = tdt /\ tdh # tdt
      /\ sent' = Append(sent, tx[tdh].frame)
      /\ tx' = [tx EXCEPT ![tdh].dd = TRUE]
      /\ tdh' = (tdh + 1) % TX_N
  BY Zenon DEF Nic!Transmit
<1>2. T \in Nat /\ T <= n /\ n <= T + TX_N
  BY DEF Ring
<1>3. T < n
  BY <1>1, <1>2 DEF Ring
<1>4. tx[tdh].frame = T + 1
  <2>1. T <= T /\ T < T + TX_N
    BY <1>2
  <2> QED BY <1>2, <1>3, <2>1, Zenon DEF Ring, Waiting
<1>5. sent' = Append(sent, T + 1)
  BY <1>1, <1>4, Zenon
<1>6. /\ sent' \in Seq(Nat) /\ Len(sent') = T + 1
      /\ \A j \in 1 .. Len(sent') : sent'[j] = j
  <2>1. sent' \in Seq(Nat) /\ Len(sent') = T + 1 /\ sent'[T + 1] = T + 1
    BY <1>2, <1>5 DEF Ring
  <2>2. \A j \in 1 .. T : sent'[j] = j
    BY <1>2, <1>5 DEF Ring
  <2> QED BY <1>2, <2>1, <2>2
<1>7. tdh' = (T + 1) % TX_N
  <2>1. tdh' = ((T % TX_N) + 1) % TX_N
    BY <1>1, Zenon DEF Ring
  <2>2. T \in Int /\ 1 \in Int /\ TX_N \in Nat /\ TX_N > 0
    BY <1>2
  <2> QED BY <2>1, <2>2, ModPlus, Zenon
<1>8. tdh \in Nic!Tx /\ tx' = [tx EXCEPT ![tdh] = [tx[tdh] EXCEPT !.dd = TRUE]]
      /\ [tx[tdh] EXCEPT !.dd = TRUE] \in [frame : Nat, dd : BOOLEAN]
  <2>1. tdh \in Nic!Tx
    BY <1>2, ModType DEF Ring, Nic!Tx
  <2>2. tx[tdh] \in [frame : Nat, dd : BOOLEAN]
    BY <2>1, Zenon DEF Ring
  <2> QED BY <1>1, <2>1, <2>2, Zenon
<1>9. tx' \in [Nic!Tx -> [frame : Nat, dd : BOOLEAN]]
  BY <1>8, Zenon DEF Ring
<1>10. tx'[tdh].dd = TRUE /\ tx'[tdh].frame = tx[tdh].frame
       /\ \A i \in Nic!Tx : i # tdh => tx'[i] = tx[i]
  <2>1. tx'[tdh] = [tx[tdh] EXCEPT !.dd = TRUE]
    BY <1>8, Zenon DEF Ring
  <2>2. tx[tdh] \in [frame : Nat, dd : BOOLEAN]
    BY <1>8, Zenon DEF Ring
  <2>3. \A i \in Nic!Tx : i # tdh => tx'[i] = tx[i]
    BY <1>8, Zenon DEF Ring
  <2> QED BY <2>1, <2>2, <2>3, Zenon
<1>11. ASSUME NEW k \in Nat, T + 1 <= k, k < T + 1 + TX_N
      PROVE  /\ k < n => Waiting(k % TX_N, k)'
             /\ ~(k < n) => tx'[k % TX_N].dd = TRUE
  <2>1. k % TX_N \in Nic!Tx
    BY ModType DEF Nic!Tx
  <2>2. CASE k = T + TX_N
    <3>1. T \in Int /\ TX_N \in Nat /\ TX_N > 0
      BY <1>2
    <3>2. (T + TX_N) % TX_N = T % TX_N
      BY <3>1, ModWrap, Zenon
    <3>3. k % TX_N = tdh
      BY <2>2, <3>2, Zenon DEF Ring
    <3>4. ~(k < n)
      BY <1>2, <2>2
    <3> QED BY <1>10, <3>3, <3>4, Zenon
  <2>3. CASE k # T + TX_N
    <3>1. k % TX_N # tdh
      <4>1. /\ k \in Int /\ T \in Int /\ TX_N \in Nat /\ TX_N > 0
            /\ k - T < TX_N /\ T - k < TX_N /\ k # T
        BY <1>2, <1>11, <2>3
      <4> QED BY <4>1, ModInjective, Zenon DEF Ring
    <3>2. tx'[k % TX_N] = tx[k % TX_N]
      BY <1>10, <2>1, <3>1, Zenon
    <3>3. T <= k /\ k < T + TX_N
      BY <1>2, <1>11, <2>3
    <3>4. /\ k < n => Waiting(k % TX_N, k)
          /\ ~(k < n) => tx[k % TX_N].dd = TRUE
      BY <3>3, Zenon DEF Ring
    <3> QED BY <3>2, <3>4, Zenon DEF Waiting
  <2> QED BY <2>2, <2>3, Zenon
<1>12. T + 1 <= n /\ n <= T + 1 + TX_N
  BY <1>2, <1>3
<1>13. tdt' = n % TX_N
  BY <1>1, Zenon DEF Ring
<1>14. Ring(n)'
  BY <1>6, <1>7, <1>9, <1>11, <1>12, <1>13, Zenon DEF Ring
<1> QED BY <1>10, <1>14, Zenon

LEMMA RingNext ==
  ASSUME NEW n \in Nat
  PROVE  /\ n + 1 \in Nat /\ n % TX_N \in Nic!Tx
         /\ Nic!Following(n % TX_N) = (n + 1) % TX_N
<1>1. n \in Int /\ 1 \in Int /\ TX_N \in Nat /\ TX_N > 0 /\ n + 1 \in Nat
  BY DevicesAssumption
<1>2. n % TX_N \in Nic!Tx
  BY <1>1, ModType DEF Nic!Tx
<1> QED BY <1>1, <1>2, ModPlus, Zenon DEF Nic!Following

\* A sender with interrupts off, when no process is sending.
LEMMA TxSubmit ==
  ASSUME TxInv, Nic!e1000_tx_submit
  PROVE  TxInv'
<1> DEFINE new == [frame |-> framed + 1, dd |-> FALSE]
<1>1. /\ framed' = framed + 1 /\ sent' = sent /\ tdh' = tdh /\ slow' = slow
      /\ tx' = [tx EXCEPT ![tx_next] = new]
      /\ tx_next' = Nic!Following(tx_next) /\ tdt' = Nic!Following(tx_next)
      /\ tx[tx_next].dd /\ crossed' = (crossed \/ Nic!Sending)
  BY Zenon DEF Nic!e1000_tx_submit, Nic!MayFill
<1> SUFFICES ASSUME ~crossed' PROVE TxOk'
  BY Zenon DEF TxInv
<1>2. TxOk /\ \A p \in Senders : slow[p].at = "out"
  BY <1>1, Zenon DEF Nic!Sending, TxInv
<1>3. PICK n \in Nat : Ring(n) /\ (Quiet(n) \/ \E p \in Senders : Alone(p, n))
  BY <1>2, Zenon DEF TxOk
<1>4. Quiet(n)
  <2> SUFFICES ASSUME NEW p \in Senders, Alone(p, n) PROVE FALSE
    BY <1>3, Zenon
  <2>1. slow[p].at = "out"
    BY <1>2, Zenon
  <2> QED BY <2>1 DEF Alone
<1>5. /\ framed = n /\ tx_next = n % TX_N /\ n % TX_N \in Nic!Tx /\ n + 1 \in Nat
      /\ Nic!Following(tx_next) = (n + 1) % TX_N
  BY <1>4, RingNext, Zenon DEF Quiet
<1>6. new \in [frame : Nat, dd : BOOLEAN] /\ new.frame = n + 1 /\ new.dd = FALSE
  BY <1>5
<1> HIDE DEF new
<1>7. /\ tx' \in [Nic!Tx -> [frame : Nat, dd : BOOLEAN]] /\ tx'[n % TX_N] = new
      /\ \A i \in Nic!Tx : i # n % TX_N => tx'[i] = tx[i]
      /\ tx[n % TX_N].dd = TRUE
  <2>1. tx \in [Nic!Tx -> [frame : Nat, dd : BOOLEAN]]
    BY <1>3, Zenon DEF Ring
  <2>2. tx[n % TX_N].dd \in BOOLEAN
    BY <1>5, <2>1, Zenon
  <2> QED BY <1>1, <1>5, <1>6, <2>1, <2>2, Zenon
<1>8. Ring(n + 1)'
  BY <1>1, <1>3, <1>5, <1>6, <1>7, RingPublish, Zenon
<1>9. Quiet(n + 1)'
  BY <1>1, <1>2, <1>5, Zenon DEF Quiet
<1> QED BY <1>1, <1>2, <1>5, <1>8, <1>9, Zenon DEF TxOk

\* What a step of p, which is sending, starts from.
LEMMA TxAlone ==
  ASSUME TxOk, NEW p \in Senders, slow[p].at # "out"
  PROVE  \E n \in Nat : Ring(n) /\ Alone(p, n)
<1>1. PICK n \in Nat : Ring(n) /\ (Quiet(n) \/ \E q \in Senders : Alone(q, n))
  BY Zenon DEF TxOk
<1>2. ~Quiet(n)
  BY Zenon DEF Quiet
<1>3. PICK q \in Senders : Alone(q, n)
  BY <1>1, <1>2, Zenon
<1>4. q = p
  BY <1>3, Zenon DEF Alone
<1> QED BY <1>1, <1>3, <1>4, Zenon

\* A step of p leaves the other processes alone.
LEMMA SlowMoves ==
  ASSUME TxOk, NEW p \in Senders, NEW s \in SlowType, slow' = [slow EXCEPT ![p] = s]
  PROVE  /\ slow' \in [Senders -> SlowType] /\ slow'[p] = s
         /\ \A q \in Senders : q # p => slow'[q] = slow[q]
  BY Zenon DEF TxOk

LEMMA SlowPlace ==
  ASSUME TxOk, NEW p \in Senders, NEW a \in Places, slow' = [slow EXCEPT ![p].at = a]
  PROVE  /\ slow' \in [Senders -> SlowType] /\ slow'[p].at = a /\ slow'[p].buf = slow[p].buf
         /\ \A q \in Senders : q # p => slow'[q] = slow[q]
<1> DEFINE s == [slow[p] EXCEPT !.at = a]
<1>1. slow[p] \in SlowType /\ slow' = [slow EXCEPT ![p] = s]
  BY Zenon DEF TxOk
<1>2. s \in SlowType /\ s.at = a /\ s.buf = slow[p].buf
  BY <1>1, Zenon DEF SlowType
<1> HIDE DEF s
<1> QED BY <1>1, <1>2, SlowMoves, Zenon

\* e1000_tx_alloc() in a process, when no other is sending.
LEMMA TxAlloc ==
  ASSUME TxInv, NEW p \in Senders, Nic!slow_alloc(p)
  PROVE  TxInv'
<1> DEFINE s == [at |-> "write", buf |-> tx_next]
<1>1. /\ tx[tx_next].dd /\ slow' = [slow EXCEPT ![p] = s]
      /\ crossed' = (crossed \/ Nic!Sending)
      /\ tx' = tx /\ tdh' = tdh /\ tdt' = tdt /\ tx_next' = tx_next /\ framed' = framed
      /\ sent' = sent
  BY Zenon DEF Nic!slow_alloc, Nic!MayFill
<1> SUFFICES ASSUME ~crossed' PROVE TxOk'
  BY Zenon DEF TxInv
<1>2. TxOk /\ \A q \in Senders : slow[q].at = "out"
  BY <1>1, Zenon DEF Nic!Sending, TxInv
<1>3. PICK n \in Nat : Ring(n) /\ (Quiet(n) \/ \E q \in Senders : Alone(q, n))
  BY <1>2, Zenon DEF TxOk
<1>4. Quiet(n)
  <2> SUFFICES ASSUME NEW q \in Senders, Alone(q, n) PROVE FALSE
    BY <1>3, Zenon
  <2>1. slow[q].at = "out"
    BY <1>2, Zenon
  <2> QED BY <2>1 DEF Alone
<1>5. framed = n /\ tx_next = n % TX_N /\ tx_next \in Nic!Tx
  BY <1>4, RingNext, Zenon DEF Quiet
<1>6. s \in SlowType /\ s.at = "write" /\ s.buf = tx_next
  BY <1>5 DEF SlowType, Places
<1> HIDE DEF s
<1>7. /\ slow' \in [Senders -> SlowType] /\ slow'[p] = s
      /\ \A q \in Senders : q # p => slow'[q] = slow[q]
  BY <1>1, <1>2, <1>6, SlowMoves, Zenon
<1>8. tx[tx_next].dd = TRUE
  <2>1. tx[tx_next].dd \in BOOLEAN
    BY <1>3, <1>5, Zenon DEF Ring
  <2> QED BY <1>1, <2>1, Zenon
<1>9. Alone(p, n)'
  BY <1>1, <1>2, <1>5, <1>6, <1>7, <1>8, Zenon DEF Alone, Writing
<1>10. Ring(n)'
  BY <1>1, <1>3, Zenon DEF Ring, Waiting
<1> QED BY <1>7, <1>9, <1>10, Zenon DEF TxOk

\* The frame goes into the buffer of tx_next, which is free.
LEMMA TxWrite ==
  ASSUME TxInv, NEW p \in Senders, Nic!slow_write(p)
  PROVE  TxInv'
<1>1. /\ slow[p].at = "write" /\ framed' = framed + 1
      /\ tx' = [tx EXCEPT ![slow[p].buf].frame = framed + 1]
      /\ slow' = [slow EXCEPT ![p].at = "load"] /\ crossed' = crossed
      /\ tdh' = tdh /\ tdt' = tdt /\ tx_next' = tx_next /\ sent' = sent
  BY Zenon DEF Nic!slow_write
<1> SUFFICES ASSUME TxOk PROVE TxOk'
  BY <1>1, Zenon DEF TxInv
<1>2. PICK n \in Nat : Ring(n) /\ Alone(p, n)
  <2>1. slow[p].at # "out"
    BY <1>1
  <2> QED BY <2>1, TxAlone, Zenon
<1>3. /\ slow[p].buf = tx_next /\ Writing(n)
      /\ \A q \in Senders : q # p => slow[q].at = "out"
  BY <1>1, <1>2 DEF Alone
<1>4. framed = n /\ tx_next = n % TX_N /\ tx[tx_next].dd = TRUE /\ tx_next \in Nic!Tx /\ n + 1 \in Nat
  BY <1>3, RingNext, Zenon DEF Writing
<1>5. tx \in [Nic!Tx -> [frame : Nat, dd : BOOLEAN]]
  BY <1>2, Zenon DEF Ring
<1>6. /\ tx' \in [Nic!Tx -> [frame : Nat, dd : BOOLEAN]]
      /\ tx'[tx_next].frame = n + 1 /\ tx'[tx_next].dd = TRUE
      /\ \A i \in Nic!Tx : i # tx_next => tx'[i] = tx[i]
  <2> DEFINE r == [tx[tx_next] EXCEPT !.frame = n + 1]
  <2>1. tx' = [tx EXCEPT ![tx_next] = r]
    BY <1>1, <1>3, <1>4, Zenon
  <2>2. r \in [frame : Nat, dd : BOOLEAN] /\ r.frame = n + 1 /\ r.dd = tx[tx_next].dd
    <3>1. tx[tx_next] \in [frame : Nat, dd : BOOLEAN]
      BY <1>4, <1>5, Zenon
    <3> QED BY <1>4, <3>1, Zenon
  <2> HIDE DEF r
  <2> QED BY <1>4, <1>5, <2>1, <2>2, Zenon
<1>7. Ring(n)'
  <2>1. ASSUME NEW k \in Nat, Len(sent) <= k, k < Len(sent) + TX_N
        PROVE  /\ k < n => Waiting(k % TX_N, k)'
               /\ ~(k < n) => tx'[k % TX_N].dd = TRUE
    <3>1. /\ k < n => Waiting(k % TX_N, k)
          /\ ~(k < n) => tx[k % TX_N].dd = TRUE
      BY <1>2, <2>1, Zenon DEF Ring
    <3>2. k % TX_N \in Nic!Tx
      BY RingNext, Zenon
    <3>3. CASE k % TX_N = tx_next
      BY <1>4, <1>6, <3>1, <3>3, Zenon DEF Waiting
    <3>4. CASE k % TX_N # tx_next
      BY <1>6, <3>1, <3>2, <3>4, Zenon DEF Waiting
    <3> QED BY <3>3, <3>4, Zenon
  <2> QED BY <1>1, <1>2, <1>6, <2>1, Zenon DEF Ring
<1>8. /\ slow' \in [Senders -> SlowType] /\ slow'[p].at = "load" /\ slow'[p].buf = tx_next
      /\ \A q \in Senders : q # p => slow'[q] = slow[q]
  BY <1>1, <1>3, SlowPlace, Zenon DEF Places
<1>9. Alone(p, n)'
  BY <1>1, <1>3, <1>4, <1>6, <1>8, Zenon DEF Alone, Written
<1> QED BY <1>7, <1>8, <1>9, Zenon DEF TxOk

\* e1000_tx_submit() finds the buffer that was filled.
LEMMA TxLoad ==
  ASSUME TxInv, NEW p \in Senders, Nic!slow_load(p)
  PROVE  TxInv'
<1> DEFINE s == [at |-> "publish", buf |-> tx_next]
<1>1. /\ slow[p].at = "load" /\ crossed' = crossed
      /\ slow' = [slow EXCEPT ![p] = IF tx[tx_next].dd THEN s ELSE Nic!NoSend]
      /\ tx' = tx /\ tdh' = tdh /\ tdt' = tdt /\ tx_next' = tx_next /\ framed' = framed
      /\ sent' = sent
  BY Zenon DEF Nic!slow_load
<1> SUFFICES ASSUME TxOk PROVE TxOk'
  BY <1>1, Zenon DEF TxInv
<1>2. PICK n \in Nat : Ring(n) /\ Alone(p, n)
  <2>1. slow[p].at # "out"
    BY <1>1
  <2> QED BY <2>1, TxAlone, Zenon
<1>3. /\ slow[p].buf = tx_next /\ Written(n)
      /\ \A q \in Senders : q # p => slow[q].at = "out"
  BY <1>1, <1>2 DEF Alone
<1>4. slow' = [slow EXCEPT ![p] = s] /\ tx_next \in Nic!Tx
  BY <1>1, <1>3, RingNext, Zenon DEF Written
<1>5. s \in SlowType /\ s.at = "publish" /\ s.buf = tx_next
  BY <1>4 DEF SlowType, Places
<1> HIDE DEF s
<1>6. /\ slow' \in [Senders -> SlowType] /\ slow'[p] = s
      /\ \A q \in Senders : q # p => slow'[q] = slow[q]
  BY <1>4, <1>5, SlowMoves, Zenon
<1>7. Alone(p, n)' /\ Ring(n)'
  BY <1>1, <1>2, <1>3, <1>5, <1>6, Zenon DEF Alone, Written, Ring, Waiting
<1> QED BY <1>6, <1>7, Zenon DEF TxOk

\* It gives that buffer to the card.
LEMMA TxPublish ==
  ASSUME TxInv, NEW p \in Senders, Nic!slow_publish(p)
  PROVE  TxInv'
<1>1. /\ slow[p].at = "publish" /\ crossed' = crossed
      /\ tx' = [tx EXCEPT ![slow[p].buf].dd = FALSE]
      /\ tdt' = Nic!Following(slow[p].buf)
      /\ slow' = [slow EXCEPT ![p].at = "advance"]
      /\ tdh' = tdh /\ tx_next' = tx_next /\ framed' = framed /\ sent' = sent
  BY Zenon DEF Nic!slow_publish
<1> SUFFICES ASSUME TxOk PROVE TxOk'
  BY <1>1, Zenon DEF TxInv
<1>2. PICK n \in Nat : Ring(n) /\ Alone(p, n)
  <2>1. slow[p].at # "out"
    BY <1>1
  <2> QED BY <2>1, TxAlone, Zenon
<1>3. /\ slow[p].buf = tx_next /\ Written(n)
      /\ \A q \in Senders : q # p => slow[q].at = "out"
  BY <1>1, <1>2 DEF Alone
<1>4. /\ framed = n + 1 /\ tx_next = n % TX_N /\ tx_next \in Nic!Tx /\ n + 1 \in Nat
      /\ tx[tx_next].frame = n + 1 /\ tx[tx_next].dd = TRUE
      /\ Nic!Following(tx_next) = (n + 1) % TX_N
  BY <1>3, RingNext, Zenon DEF Written
<1>5. tx \in [Nic!Tx -> [frame : Nat, dd : BOOLEAN]]
  BY <1>2, Zenon DEF Ring
<1>6. /\ tx' \in [Nic!Tx -> [frame : Nat, dd : BOOLEAN]]
      /\ tx'[tx_next].frame = n + 1 /\ tx'[tx_next].dd = FALSE
      /\ \A i \in Nic!Tx : i # tx_next => tx'[i] = tx[i]
  <2> DEFINE r == [tx[tx_next] EXCEPT !.dd = FALSE]
  <2>1. tx' = [tx EXCEPT ![tx_next] = r]
    BY <1>1, <1>3, Zenon
  <2>2. r \in [frame : Nat, dd : BOOLEAN] /\ r.frame = tx[tx_next].frame /\ r.dd = FALSE
    <3>1. tx[tx_next] \in [frame : Nat, dd : BOOLEAN]
      BY <1>4, <1>5, Zenon
    <3> QED BY <3>1, Zenon
  <2> HIDE DEF r
  <2> QED BY <1>4, <1>5, <2>1, <2>2, Zenon
<1>7. Ring(n + 1)'
  <2>1. /\ tx[n % TX_N].dd = TRUE /\ tdt' = (n + 1) % TX_N
        /\ tx'[n % TX_N].frame = n + 1 /\ tx'[n % TX_N].dd = FALSE
        /\ \A i \in Nic!Tx : i # n % TX_N => tx'[i] = tx[i]
    BY <1>1, <1>3, <1>4, <1>6, Zenon
  <2> QED BY <1>1, <1>2, <1>6, <2>1, RingPublish, Zenon
<1>8. /\ slow' \in [Senders -> SlowType] /\ slow'[p].at = "advance" /\ slow'[p].buf = tx_next
      /\ \A q \in Senders : q # p => slow'[q] = slow[q]
  BY <1>1, <1>3, SlowPlace, Zenon DEF Places
<1>9. Published(n + 1)'
  BY <1>1, <1>4, Zenon DEF Published, Nic!Following
<1>10. Alone(p, n + 1)'
  BY <1>1, <1>3, <1>8, <1>9, Zenon DEF Alone
<1> QED BY <1>4, <1>7, <1>8, <1>10, Zenon DEF TxOk

LEMMA TxAdvance ==
  ASSUME TxInv, NEW p \in Senders, Nic!slow_advance(p)
  PROVE  TxInv'
<1>1. /\ slow[p].at = "advance" /\ crossed' = crossed
      /\ tx_next' = Nic!Following(slow[p].buf)
      /\ slow' = [slow EXCEPT ![p] = Nic!NoSend]
      /\ tx' = tx /\ tdh' = tdh /\ tdt' = tdt /\ framed' = framed /\ sent' = sent
  BY Zenon DEF Nic!slow_advance
<1> SUFFICES ASSUME TxOk PROVE TxOk'
  BY <1>1, Zenon DEF TxInv
<1>2. PICK n \in Nat : Ring(n) /\ Alone(p, n)
  <2>1. slow[p].at # "out"
    BY <1>1
  <2> QED BY <2>1, TxAlone, Zenon
<1>3. /\ slow[p].buf = tx_next /\ Published(n)
      /\ \A q \in Senders : q # p => slow[q].at = "out"
  BY <1>1, <1>2 DEF Alone
<1>4. Nic!NoSend \in SlowType /\ Nic!NoSend.at = "out"
  BY DevicesAssumption DEF SlowType, Places, Nic!NoSend, Nic!Tx
<1>5. /\ slow' \in [Senders -> SlowType] /\ slow'[p] = Nic!NoSend
      /\ \A q \in Senders : q # p => slow'[q] = slow[q]
  BY <1>1, <1>4, SlowMoves, Zenon
<1>6. Quiet(n)' /\ Ring(n)'
  BY <1>1, <1>2, <1>3, <1>4, <1>5, Zenon DEF Quiet, Published, Ring, Waiting
<1> QED BY <1>5, <1>6, Zenon DEF TxOk

LEMMA TxTransmit ==
  ASSUME TxInv, Nic!Transmit
  PROVE  TxInv'
<1>1. tx_next' = tx_next /\ framed' = framed /\ slow' = slow /\ crossed' = crossed
  BY Zenon DEF Nic!Transmit
<1> SUFFICES ASSUME TxOk PROVE TxOk'
  BY <1>1, Zenon DEF TxInv
<1>2. PICK n \in Nat : Ring(n) /\ (Quiet(n) \/ \E p \in Senders : Alone(p, n))
  BY Zenon DEF TxOk
<1>3. /\ Ring(n)'
      /\ \A i \in Nic!Tx : tx[i].dd = TRUE => tx'[i].dd = TRUE /\ tx'[i].frame = tx[i].frame
  BY <1>2, RingTransmit, Zenon
<1>4. Quiet(n) => Quiet(n)'
  BY <1>1, Zenon DEF Quiet
<1>5. ASSUME NEW p \in Senders, Alone(p, n) PROVE Alone(p, n)'
  <2>1. n % TX_N \in Nic!Tx
    BY RingNext, Zenon
  <2>2. /\ Writing(n) => Writing(n)'
        /\ Written(n) => Written(n)'
        /\ Published(n) => Published(n)'
    BY <1>1, <1>3, <2>1, Zenon DEF Writing, Written, Published, Nic!Following
  <2> QED BY <1>1, <1>5, <2>2, Zenon DEF Alone
<1> QED BY <1>1, <1>2, <1>3, <1>4, <1>5, Zenon DEF TxOk

LEMMA TxUnchanged == TxInv /\ UNCHANGED Nic!txVars => TxInv'
<1> SUFFICES ASSUME TxInv, UNCHANGED Nic!txVars PROVE TxInv'
  BY Zenon
<1>1. /\ tx' = tx /\ tdh' = tdh /\ tdt' = tdt /\ tx_next' = tx_next /\ framed' = framed
      /\ sent' = sent /\ slow' = slow /\ crossed' = crossed
  BY Zenon DEF Nic!txVars
<1>2. \A n \in Nat : Ring(n)' <=> Ring(n)
  BY <1>1, Zenon DEF Ring, Waiting
<1>3. \A n \in Nat : Quiet(n)' <=> Quiet(n)
  BY <1>1, Zenon DEF Quiet
<1>4. \A n \in Nat : (Writing(n)' <=> Writing(n)) /\ (Written(n)' <=> Written(n))
                     /\ (Published(n)' <=> Published(n))
  BY <1>1, Zenon DEF Writing, Written, Published, Nic!Following
<1>5. \A n \in Nat, p \in Senders : Alone(p, n) => Alone(p, n)'
  BY <1>1, <1>4, Zenon DEF Alone
<1> QED BY <1>1, <1>2, <1>3, <1>5, Zenon DEF TxInv, TxOk

\* SentAsWritten: a frame leaves as it was written, in order, unless a send is
\* begun inside another one; e1000_tx_alloc() hands out no buffer that the card
\* has yet to read.  For every size of ring and every set of processes that send
\* with interrupts on (net_ping(), net_dns_resolve()).
THEOREM SentAsWrittenAlways == Nic!Spec => []SentAsWritten
<1>1. TxInv /\ [Nic!Next]_Nic!vars => TxInv'
  <2> SUFFICES ASSUME TxInv, [Nic!Next]_Nic!vars PROVE TxInv'
    BY Zenon
  <2>1. CASE Nic!e1000_tx_submit
    BY <2>1, TxSubmit, Zenon
  <2>2. CASE Nic!Transmit
    BY <2>2, TxTransmit, Zenon
  <2>3. CASE Nic!Receive \/ Nic!e1000_poll
    BY <2>3, TxUnchanged, Zenon DEF Nic!Receive, Nic!e1000_poll
  <2>4. CASE UNCHANGED Nic!vars
    BY <2>4, TxUnchanged, Zenon DEF Nic!vars
  <2>5. ASSUME NEW p \in Senders,
               \/ Nic!slow_alloc(p) \/ Nic!slow_write(p) \/ Nic!slow_load(p)
               \/ Nic!slow_publish(p) \/ Nic!slow_advance(p)
        PROVE  TxInv'
    BY <2>5, TxAlloc, TxWrite, TxLoad, TxPublish, TxAdvance, Zenon
  <2> QED BY <2>1, <2>2, <2>3, <2>4, <2>5, Zenon DEF Nic!Next, Nic!RxNext, Nic!TxNext
<1>2. TxInv => SentAsWritten
  <2> SUFFICES ASSUME TxInv, ~crossed PROVE \A j \in DOMAIN sent : sent[j] = j
    BY Zenon DEF SentAsWritten, Nic!SentAsWritten
  <2>1. PICK n \in Nat : Ring(n)
    BY Zenon DEF TxInv, TxOk
  <2> QED BY <2>1 DEF Ring
<1> QED BY TxInit, <1>1, <1>2, PTL DEF Nic!Spec

-----------------------------------------------------------------------------
(* The transfers of the disk.                                              *)

IoType ==
  [pc : {"idle", "chunk", "rw", "done"}, part : DOMAIN Table \cup {0}, l : Nat, n : Nat,
   wr : {"read", "write"}, lba : Nat, left : Nat, c : Nat, s : Nat, b : Nat, t : {0, 1},
   rc : {0, -1}]

\* The request in io, which part_io() has let through: it lies in its partition.
First == Table[io.part].lba + io.l

Granted ==
  /\ io.part \in DOMAIN Table /\ Disk!Registered(Table[io.part])
  /\ io.l + io.n <= Table[io.part].cnt
  /\ io.n <= MaxLen /\ io.left <= io.n

\* The first m sectors of the request have been transferred, and no other.
DiskRead(m) ==
  /\ disk = [x \in Disk!Lba |-> <<"disk", x>>]
  /\ mem = [x \in Disk!Index |-> IF x < m THEN <<"disk", First + x>> ELSE <<"mem", x>>]

DiskWritten(m) ==
  /\ mem = [x \in Disk!Index |-> <<"mem", x>>]
  /\ disk = [x \in Disk!Lba |-> IF First <= x /\ x < First + m THEN <<"mem", x - First>>
                                ELSE <<"disk", x>>]

Moved(m) == (io.wr = "read" => DiskRead(m)) /\ (io.wr = "write" => DiskWritten(m))

\* A command starts where the last one ended, b and lba move together, and a
\* command fails only before its first sector, so that a retry finds b in place.
DiskInv ==
  /\ io \in IoType
  /\ io.pc = "idle" => /\ disk = [x \in Disk!Lba |-> <<"disk", x>>]
                       /\ mem = [x \in Disk!Index |-> <<"mem", x>>]
  /\ io.pc = "chunk" /\ io.rc = 0 =>
       Granted /\ io.lba = First + (io.n - io.left) /\ Moved(io.n - io.left)
  /\ io.pc = "rw" =>
       /\ Granted /\ io.lba = First + (io.n - io.left) /\ io.rc = 0
       /\ io.c <= io.left /\ io.s <= io.c /\ io.b = (io.n - io.left) + io.s
       /\ Moved(io.b)
  /\ io.pc = "done" /\ io.rc = 0 => Granted /\ Moved(io.n)

LEMMA DiskInit == Disk!Init => DiskInv
  BY DEF Disk!Init, Disk!Idle, DiskInv, IoType

LEMMA DiskPartIo ==
  ASSUME DiskInv, NEW i \in DOMAIN Table, NEW l \in 0 .. Sectors, NEW n \in 0 .. MaxLen,
         NEW wr \in {"read", "write"}, Disk!part_io(i, l, n, wr)
  PROVE  DiskInv'
<1> USE DevicesAssumption
<1>1. /\ io.pc = "idle" /\ Disk!Registered(Table[i])
      /\ io' = IF l >= Table[i].cnt \/ n > Table[i].cnt - l
               THEN [Disk!Idle EXCEPT !.pc = "done", !.rc = -1]
               ELSE [Disk!Idle EXCEPT !.pc = "chunk", !.part = i, !.l = l, !.n = n, !.wr = wr,
                                      !.lba = Table[i].lba + l, !.left = n]
      /\ disk' = disk /\ mem' = mem
  BY Zenon DEF Disk!part_io
<1>2. Table[i].lba \in Nat /\ Table[i].cnt \in Nat /\ l \in Nat /\ n \in Nat /\ n <= MaxLen
  OBVIOUS
<1>3. /\ disk = [x \in Disk!Lba |-> <<"disk", x>>]
      /\ mem = [x \in Disk!Index |-> <<"mem", x>>]
  BY <1>1, Zenon DEF DiskInv
<1>4. CASE l >= Table[i].cnt \/ n > Table[i].cnt - l
  <2>1. io' = [Disk!Idle EXCEPT !.pc = "done", !.rc = -1]
    BY <1>1, <1>4, Zenon
  <2>2. io' \in IoType /\ io'.pc = "done" /\ io'.rc = -1
    BY <2>1, Zenon DEF IoType, Disk!Idle
  <2> QED BY <2>2 DEF DiskInv
<1>5. CASE ~(l >= Table[i].cnt \/ n > Table[i].cnt - l)
  <2>1. /\ io' \in IoType /\ io'.pc = "chunk" /\ io'.part = i /\ io'.l = l /\ io'.n = n
        /\ io'.left = n /\ io'.wr = wr /\ io'.lba = Table[i].lba + l
    <3>1. io' = [Disk!Idle EXCEPT !.pc = "chunk", !.part = i, !.l = l, !.n = n, !.wr = wr,
                                  !.lba = Table[i].lba + l, !.left = n]
      BY <1>1, <1>5, Zenon
    <3>2. Table[i].lba + l \in Nat
      BY <1>2
    <3> HIDE DevicesAssumption
    <3> QED BY <1>2, <3>1, <3>2, ZenonT(60) DEF IoType, Disk!Idle
  <2>2. First' = Table[i].lba + l
    BY <2>1, Zenon DEF First
  <2>3. Granted'
    BY <1>1, <1>2, <1>5, <2>1 DEF Granted, Disk!Registered
  <2>4. io'.lba = First' + (io'.n - io'.left) /\ io'.n - io'.left = 0
    BY <1>2, <2>1, <2>2
  <2>5. DiskRead(0)' /\ DiskWritten(0)'
    <3>1. \A x \in Disk!Index : ~(x < 0)
      BY DEF Disk!Index
    <3>2. \A x \in Disk!Lba : ~(First' <= x /\ x < First' + 0)
      BY <1>2, <2>2 DEF Disk!Lba
    <3> QED BY <1>1, <1>3, <3>1, <3>2, Zenon DEF DiskRead, DiskWritten
  <2>6. Moved(io.n - io.left)'
    BY <2>4, <2>5, Zenon DEF Moved
  <2> QED BY <2>1, <2>3, <2>4, <2>6, Zenon DEF DiskInv
<1> QED BY <1>4, <1>5, Zenon

LEMMA DiskDskIo ==
  ASSUME DiskInv, Disk!dsk_io
  PROVE  DiskInv'
<1> USE DevicesAssumption
<1> DEFINE c == IF io.left > MaxCmd THEN MaxCmd ELSE io.left
<1>1. /\ io.pc = "chunk" /\ disk' = disk /\ mem' = mem
      /\ io' = IF io.left = 0 \/ io.rc # 0 THEN [io EXCEPT !.pc = "done"]
               ELSE [io EXCEPT !.pc = "rw", !.c = c, !.s = 0, !.t = 0, !.b = io.n - io.left]
  BY Zenon DEF Disk!dsk_io
<1>2. io \in IoType /\ io.left \in Nat /\ io.n \in Nat
  BY Zenon DEF DiskInv, IoType
<1>4. CASE io.left = 0 \/ io.rc # 0
  <2>1. /\ io' \in IoType /\ io'.pc = "done" /\ io'.part = io.part /\ io'.l = io.l
        /\ io'.wr = io.wr /\ io'.n = io.n /\ io'.left = io.left /\ io'.rc = io.rc
    BY <1>1, <1>2, <1>4, Zenon DEF IoType
  <2>2. ASSUME io.rc = 0 PROVE Granted' /\ Moved(io.n)'
    <3>1. io.n - io.left = io.n
      BY <1>2, <1>4, <2>2
    <3>2. Granted /\ Moved(io.n)
      BY <1>1, <2>2, <3>1, Zenon DEF DiskInv
    <3>3. Moved(io.n)'
      BY <1>1, <2>1, <3>2 DEF Moved, DiskRead, DiskWritten, First
    <3> QED BY <2>1, <3>2, <3>3, Zenon DEF Granted
  <2> QED BY <2>1, <2>2, Zenon DEF DiskInv
<1>5. CASE ~(io.left = 0 \/ io.rc # 0)
  <2>1. c \in Nat /\ c <= io.left /\ io.rc = 0
    BY <1>2, <1>5
  <2>2. Granted /\ io.lba = First + (io.n - io.left) /\ Moved(io.n - io.left)
    BY <1>1, <2>1, Zenon DEF DiskInv
  <2>3. io.n - io.left \in Nat /\ (io.n - io.left) + 0 = io.n - io.left
    BY <1>2, <2>2 DEF Granted
  <2>4. /\ io' \in IoType /\ io'.pc = "rw" /\ io'.part = io.part /\ io'.l = io.l
        /\ io'.wr = io.wr /\ io'.n = io.n /\ io'.left = io.left /\ io'.rc = 0
        /\ io'.lba = io.lba /\ io'.c = c /\ io'.s = 0 /\ io'.b = io.n - io.left
    <3>1. io' = [io EXCEPT !.pc = "rw", !.c = c, !.s = 0, !.t = 0, !.b = io.n - io.left]
      BY <1>1, <1>5, Zenon
    <3> HIDE DEF c
    <3>2. /\ io'.pc = "rw" /\ io'.part = io.part /\ io'.l = io.l
          /\ io'.wr = io.wr /\ io'.n = io.n /\ io'.left = io.left /\ io'.rc = io.rc
          /\ io'.lba = io.lba /\ io'.c = c /\ io'.s = 0 /\ io'.b = io.n - io.left
      BY <1>2, <3>1, Zenon DEF IoType
    <3>3. io' \in IoType
      BY <1>2, <2>1, <2>3, <3>1, ZenonT(60) DEF IoType
    <3> QED BY <2>1, <3>2, <3>3, Zenon
  <2>5. Granted'
    BY <2>2, <2>4, Zenon DEF Granted
  <2>6. Moved(io.b)' /\ First' = First
    BY <1>1, <2>2, <2>4 DEF Moved, DiskRead, DiskWritten, First
  <2>7. 0 <= c
    BY <2>1
  <2> QED BY <2>1, <2>2, <2>3, <2>4, <2>5, <2>6, <2>7, Zenon DEF DiskInv
<1> QED BY <1>4, <1>5, Zenon

\* The bounds of a sector that is transferred: part_io() and mbr_scan() put the
\* request inside the partition, and the partition inside the disk.
LEMMA DiskBounds ==
  DiskInv /\ io.pc = "rw" /\ io.s < io.c =>
    /\ io.b \in Nat /\ io.b < io.n /\ io.b \in Disk!Index
    /\ First \in Nat /\ io.lba + io.s = First + io.b
    /\ First + io.b \in Disk!Lba
    /\ Table[io.part].lba <= First + io.b
    /\ First + io.b < Table[io.part].lba + Table[io.part].cnt
<1> SUFFICES ASSUME DiskInv, io.pc = "rw", io.s < io.c
             PROVE  /\ io.b \in Nat /\ io.b < io.n /\ io.b \in Disk!Index
                    /\ First \in Nat /\ io.lba + io.s = First + io.b
                    /\ First + io.b \in Disk!Lba
                    /\ Table[io.part].lba <= First + io.b
                    /\ First + io.b < Table[io.part].lba + Table[io.part].cnt
  BY Zenon
<1> DEFINE p == Table[io.part]
<1>1. /\ io.l \in Nat /\ io.n \in Nat /\ io.left \in Nat /\ io.s \in Nat /\ io.c \in Nat
      /\ io.b \in Nat
  BY Zenon DEF DiskInv, IoType
<1>2. /\ Granted /\ io.lba = First + (io.n - io.left)
      /\ io.c <= io.left /\ io.b = (io.n - io.left) + io.s
  BY Zenon DEF DiskInv
<1>3. p.lba \in Nat /\ p.cnt \in Nat /\ Sectors \in Nat /\ MaxLen \in Nat
  BY <1>2, DevicesAssumption, Zenon DEF Granted
<1>4. /\ io.l + io.n <= p.cnt /\ io.n <= MaxLen /\ io.left <= io.n
      /\ p.lba <= Sectors /\ p.cnt <= Sectors - p.lba
  BY <1>2, Zenon DEF Granted, Disk!Registered
<1>5. First = p.lba + io.l
  BY Zenon DEF First
<1> HIDE DEF p
<1>6. io.b < io.n /\ First \in Nat /\ First + io.b < p.lba + p.cnt /\ First + io.b < Sectors
  BY <1>1, <1>2, <1>3, <1>4, <1>5
<1>7. io.b \in Disk!Index /\ First + io.b \in Disk!Lba
  BY <1>1, <1>3, <1>4, <1>6 DEF Disk!Index, Disk!Lba
<1>8. io.lba + io.s = First + io.b /\ p.lba <= First + io.b
  BY <1>1, <1>2, <1>3, <1>4, <1>5
<1> QED BY <1>1, <1>6, <1>7, <1>8, Zenon DEF p

LEMMA DiskSector ==
  ASSUME DiskInv, Disk!rw_sector
  PROVE  DiskInv'
<1>1. /\ io.pc = "rw" /\ io.s < io.c
      /\ io' = [io EXCEPT !.s = io.s + 1, !.b = io.b + 1]
  BY Zenon DEF Disk!rw_sector
<1>2. /\ io \in IoType /\ io.s \in Nat /\ io.c \in Nat /\ io.b \in Nat /\ io.left \in Nat
      /\ io.n \in Nat
  BY Zenon DEF DiskInv, IoType
<1>3. /\ Granted /\ io.lba = First + (io.n - io.left) /\ io.rc = 0
      /\ io.c <= io.left /\ io.s <= io.c /\ io.b = (io.n - io.left) + io.s
      /\ Moved(io.b)
  BY <1>1, Zenon DEF DiskInv
<1>4. /\ io.b \in Disk!Index /\ First \in Nat /\ io.lba + io.s = First + io.b
      /\ First + io.b \in Disk!Lba
  BY <1>1, DiskBounds, Zenon
<1>5. /\ io' \in IoType /\ io'.pc = "rw" /\ io'.part = io.part /\ io'.l = io.l
      /\ io'.wr = io.wr /\ io'.n = io.n /\ io'.left = io.left /\ io'.rc = io.rc
      /\ io'.lba = io.lba /\ io'.c = io.c /\ io'.s = io.s + 1 /\ io'.b = io.b + 1
  <2>1. io.s + 1 \in Nat /\ io.b + 1 \in Nat
    BY <1>2
  <2> QED BY <1>1, <1>2, <2>1, Zenon DEF IoType
<1>6. First' = First /\ Granted'
  BY <1>3, <1>5, Zenon DEF First, Granted
<1>7. ASSUME io.wr = "read" PROVE DiskRead(io.b)'
  <2>1. mem' = [mem EXCEPT ![io.b] = disk[io.lba + io.s]] /\ disk' = disk
    BY <1>7, Zenon DEF Disk!rw_sector
  <2>2. DiskRead(io.b)
    BY <1>3, <1>7, Zenon DEF Moved
  <2>3. disk[io.lba + io.s] = <<"disk", First + io.b>>
    BY <1>4, <2>2, Zenon DEF DiskRead
  <2>4. mem' = [x \in Disk!Index |-> IF x < io.b + 1 THEN <<"disk", First + x>> ELSE <<"mem", x>>]
    <3>1. \A x \in Disk!Index : x < io.b + 1 <=> x < io.b \/ x = io.b
      BY <1>2 DEF Disk!Index
    <3>2. mem' = [mem EXCEPT ![io.b] = <<"disk", First + io.b>>]
      BY <2>1, <2>3, Zenon
    <3> QED BY <1>4, <2>2, <3>1, <3>2, Zenon DEF DiskRead
  <2>5. disk' = [x \in Disk!Lba |-> <<"disk", x>>]
    BY <2>1, <2>2, Zenon DEF DiskRead
  <2>6. mem' = [x \in Disk!Index |-> IF x < io'.b THEN <<"disk", First' + x>> ELSE <<"mem", x>>]
    BY <1>5, <1>6, <2>4, Zenon
  <2> QED BY <2>5, <2>6, Zenon DEF DiskRead
<1>8. ASSUME io.wr = "write" PROVE DiskWritten(io.b)'
  <2>1. disk' = [disk EXCEPT ![io.lba + io.s] = mem[io.b]] /\ mem' = mem
    BY <1>8, Zenon DEF Disk!rw_sector
  <2>2. DiskWritten(io.b)
    BY <1>3, <1>8, Zenon DEF Moved
  <2>3. mem[io.b] = <<"mem", io.b>> /\ io.b = (First + io.b) - First
    BY <1>2, <1>4, <2>2 DEF DiskWritten
  <2>4. disk' = [x \in Disk!Lba |-> IF First <= x /\ x < First + (io.b + 1)
                                    THEN <<"mem", x - First>> ELSE <<"disk", x>>]
    <3>1. \A x \in Disk!Lba : First <= x /\ x < First + (io.b + 1) <=>
            (First <= x /\ x < First + io.b) \/ x = First + io.b
      BY <1>2, <1>4 DEF Disk!Lba
    <3>2. disk' = [disk EXCEPT ![First + io.b] = <<"mem", (First + io.b) - First>>]
      BY <1>4, <2>1, <2>3, Zenon
    <3> QED BY <1>4, <2>2, <3>1, <3>2, Zenon DEF DiskWritten
  <2> QED BY <1>5, <1>6, <2>1, <2>2, <2>4, Zenon DEF DiskWritten
<1>9. Moved(io.b)'
  BY <1>5, <1>7, <1>8, Zenon DEF Moved
<1>10. io.s + 1 <= io.c /\ io.b + 1 = (io.n - io.left) + (io.s + 1)
  BY <1>1, <1>2, <1>3
<1> QED
  BY <1>3, <1>5, <1>6, <1>9, <1>10, Zenon DEF DiskInv

\* The end of a command, by success or by a second failure.
LEMMA DiskEnd ==
  ASSUME DiskInv, io.pc = "rw", NEW rc \in {0, -1}, rc = 0 => io.s = io.c,
         io' = Disk!EndCommand(rc), disk' = disk, mem' = mem
  PROVE  DiskInv'
<1>1. /\ io \in IoType /\ io.s \in Nat /\ io.c \in Nat /\ io.b \in Nat /\ io.left \in Nat
      /\ io.n \in Nat /\ io.lba \in Nat
  BY Zenon DEF DiskInv, IoType
<1>2. /\ Granted /\ io.lba = First + (io.n - io.left)
      /\ io.c <= io.left /\ io.b = (io.n - io.left) + io.s /\ Moved(io.b)
  BY Zenon DEF DiskInv
<1>3. /\ io' \in IoType /\ io'.pc = "chunk" /\ io'.part = io.part /\ io'.l = io.l
      /\ io'.wr = io.wr /\ io'.n = io.n /\ io'.left = io.left - io.c /\ io'.rc = rc
      /\ io'.lba = io.lba + io.c
  <2>1. io' = [io EXCEPT !.pc = "chunk", !.rc = rc, !.lba = io.lba + io.c, !.left = io.left - io.c]
    BY Zenon DEF Disk!EndCommand
  <2>2. io.lba + io.c \in Nat /\ io.left - io.c \in Nat
    BY <1>1, <1>2
  <2> QED BY <1>1, <2>1, <2>2, ZenonT(60) DEF IoType
<1>4. ASSUME rc = 0
      PROVE  Granted' /\ io'.lba = First' + (io'.n - io'.left) /\ Moved(io.n - io.left)'
  <2>1. First' = First /\ First \in Int
    <3>1. Table[io.part].lba \in Nat /\ io.l \in Nat
      BY <1>2, DevicesAssumption, Zenon DEF Granted, DiskInv, IoType
    <3> QED BY <1>3, <3>1 DEF First
  <2>2. Granted'
    <3>1. io.left - io.c <= io.n
      BY <1>1, <1>2 DEF Granted
    <3> QED BY <1>2, <1>3, <3>1, Zenon DEF Granted
  <2>3. io.b = io'.n - io'.left
    BY <1>1, <1>2, <1>3, <1>4
  <2>4. io'.lba = First' + (io'.n - io'.left)
    BY <1>1, <1>2, <1>3, <2>1
  <2>5. Moved(io.n - io.left)'
    BY <1>2, <1>3, <2>1, <2>3, Zenon DEF Moved, DiskRead, DiskWritten
  <2> QED BY <2>2, <2>4, <2>5, Zenon
<1> QED
  BY <1>3, <1>4, Zenon DEF DiskInv

LEMMA DiskError ==
  ASSUME DiskInv, FailsAt = "first", Disk!rw_error
  PROVE  DiskInv'
<1>1. /\ io.pc = "rw" /\ io.s = 0 /\ disk' = disk /\ mem' = mem /\ io.s < io.c
      /\ io' = IF io.t = 0 THEN [io EXCEPT !.t = 1, !.s = 0] ELSE Disk!EndCommand(-1)
  BY Zenon DEF Disk!rw_error
<1>2. CASE io.t = 0
  <2>1. io' = [io EXCEPT !.t = 1, !.s = 0] /\ io \in IoType
    BY <1>1, <1>2, Zenon DEF DiskInv
  <2>2. /\ io' \in IoType /\ io'.pc = "rw" /\ io'.part = io.part /\ io'.l = io.l
        /\ io'.wr = io.wr /\ io'.n = io.n /\ io'.left = io.left /\ io'.rc = io.rc
        /\ io'.lba = io.lba /\ io'.c = io.c /\ io'.s = io.s /\ io'.b = io.b
    BY <1>1, <2>1, Zenon DEF IoType
  <2>3. First' = First /\ (Granted => Granted') /\ (Moved(io.b) => Moved(io.b)')
    BY <1>1, <2>2, Zenon DEF First, Granted, Moved, DiskRead, DiskWritten
  <2> QED BY <1>1, <2>2, <2>3, Zenon DEF DiskInv
<1>3. CASE io.t # 0
  BY <1>1, <1>3, DiskEnd
<1> QED BY <1>2, <1>3, Zenon

LEMMA DiskUnchanged == DiskInv /\ UNCHANGED Disk!vars => DiskInv'
  BY Zenon DEF DiskInv, Disk!vars, Granted, First, Moved, DiskRead, DiskWritten

\* Transferred: a transfer of ide.c that succeeds has moved each of its sectors,
\* over as many commands as it takes and after a retry, and no other; no transfer
\* leaves its partition.  For every disk, partition table, length of a command
\* and of a transfer, when a command that fails does so before its first sector.
THEOREM TransferredAlways ==
  ASSUME FailsAt = "first"
  PROVE  Disk!Spec => []Transferred
<1>1. DiskInv /\ [Disk!Next]_Disk!vars => DiskInv'
  <2> SUFFICES ASSUME DiskInv, [Disk!Next]_Disk!vars PROVE DiskInv'
    BY Zenon
  <2>1. ASSUME NEW i \in DOMAIN Table, NEW l \in 0 .. Sectors, NEW n \in 0 .. MaxLen,
               NEW wr \in {"read", "write"}, Disk!part_io(i, l, n, wr)
        PROVE  DiskInv'
    BY <2>1, DiskPartIo, Zenon
  <2>2. CASE Disk!dsk_io
    BY <2>2, DiskDskIo, Zenon
  <2>3. CASE Disk!rw_sector
    BY <2>3, DiskSector, Zenon
  <2>4. CASE Disk!rw_error
    BY <2>4, DiskError, Zenon
  <2>5. CASE Disk!rw_end
    BY <2>5, DiskEnd, Zenon DEF Disk!rw_end
  <2>6. CASE Disk!Result
    BY <2>6, Zenon DEF Disk!Result, Disk!Idle, DiskInv, IoType
  <2>7. CASE UNCHANGED Disk!vars
    BY <2>7, DiskUnchanged, Zenon
  <2> QED BY <2>1, <2>2, <2>3, <2>4, <2>5, <2>6, <2>7, Zenon DEF Disk!Next, Disk!Parts
<1>2. DiskInv => Transferred
  <2> SUFFICES ASSUME DiskInv PROVE Transferred
    BY Zenon
  <2>1. Disk!InPartition
    <3> SUFFICES ASSUME io.pc = "rw", io.s < io.c
                 PROVE  /\ io.lba + io.s \in Disk!Lba
                        /\ io.lba + io.s \in
                             Table[io.part].lba .. Table[io.part].lba + Table[io.part].cnt - 1
      BY Zenon DEF Disk!InPartition
    <3>1. Table[io.part].lba \in Nat /\ Table[io.part].cnt \in Nat
      BY DevicesAssumption, Zenon DEF DiskInv, Granted
    <3> QED BY <3>1, DiskBounds
  <2>2. Disk!Transferred
    <3> SUFFICES ASSUME io.pc = "done", io.rc = 0 PROVE Disk!Transferred
      BY Zenon DEF Disk!Transferred
    <3> DEFINE moved == IF io.n = 0 THEN {} ELSE 0 .. io.n - 1
    <3>1. Granted /\ Moved(io.n) /\ io.n \in Nat /\ io.wr \in {"read", "write"} /\ io.l \in Nat
      BY Zenon DEF DiskInv, IoType
    <3>2. First \in Nat /\ First = Table[io.part].lba + io.l
      BY <3>1, DevicesAssumption DEF First, Granted
    <3>3. \A x \in Disk!Index : x \in moved <=> x < io.n
      BY <3>1 DEF Disk!Index
    <3>4. \A x \in Disk!Lba : x - First \in moved <=> First <= x /\ x < First + io.n
      BY <3>1, <3>2 DEF Disk!Lba
    <3> HIDE DEF moved
    <3>5. CASE io.wr = "read"
      <4>1. mem = [x \in Disk!Index |-> IF x \in moved THEN <<"disk", First + x>> ELSE <<"mem", x>>]
        BY <3>1, <3>3, <3>5, Zenon DEF Moved, DiskRead
      <4> QED BY <3>2, <3>5, <4>1, Zenon DEF Disk!Transferred, moved
    <3>6. CASE io.wr = "write"
      <4>1. disk = [x \in Disk!Lba |-> IF x - First \in moved THEN <<"mem", x - First>>
                                       ELSE <<"disk", x>>]
        BY <3>1, <3>4, <3>6, Zenon DEF Moved, DiskWritten
      <4> QED BY <3>2, <3>6, <4>1, Zenon DEF Disk!Transferred, moved
    <3> QED BY <3>1, <3>5, <3>6, Zenon
  <2> QED BY <2>1, <2>2, Zenon DEF Transferred
<1> QED BY DiskInit, <1>1, <1>2, PTL DEF Disk!Spec

-----------------------------------------------------------------------------
(* The modifiers of the keyboard.                                          *)

\* The keys without a prefix, and the codes that follow an E0.
PlainKeys == {"LSHIFT", "RSHIFT", "LCTRL", "LETTER", "SYMBOL"}
Extended == {Kbd!Make("LCTRL"), Kbd!Break("LCTRL"), Kbd!Make("UP"), Kbd!Break("UP")}

\* What the keyboard has sent and kh() has not read, and the prefix state of kh().
Making(k) == ks = "BASE" /\ wire = <<Kbd!Make(k)>>
Breaking(k) == ks = "BASE" /\ wire = <<Kbd!Break(k)>>

CodesInv ==
  \/ ks = "BASE" /\ wire = <<>>
  \/ \E k \in PlainKeys : Making(k) /\ k \in held
  \/ \E k \in PlainKeys : Breaking(k)
  \/ \E x \in Extended : ks = "BASE" /\ wire = <<Kbd!E0, x>>
  \/ \E x \in Extended : ks = "E0" /\ wire = <<x>>

\* A modifier is set only while a key of it is down, or its break code is due.
ModifierInv ==
  /\ held \subseteq Kbd!Keys \ {"PAUSE"} /\ paused \in BOOLEAN
  /\ ~paused =>
       /\ CodesInv
       /\ shift => \E k \in Kbd!ShiftKeys : k \in held \/ Breaking(k)
       /\ ctrl => "LCTRL" \in held \/ Breaking("LCTRL")

LEMMA Codes ==
  /\ \A k : Kbd!Make(k).code = k /\ Kbd!Make(k).break = FALSE
  /\ \A k : Kbd!Break(k).code = k /\ Kbd!Break(k).break = TRUE
  /\ \A k, m : Kbd!Make(k) # Kbd!Break(m)
  /\ \A k, m : Kbd!Break(k) = Kbd!Break(m) => k = m
<1>1. \A k : Kbd!Make(k).code = k /\ Kbd!Make(k).break = FALSE
  BY Zenon DEF Kbd!Make
<1>2. \A k : Kbd!Break(k).code = k /\ Kbd!Break(k).break = TRUE
  BY Zenon DEF Kbd!Break
<1>3. \A k, m : Kbd!Make(k) # Kbd!Break(m)
  BY <1>1, <1>2, Zenon
<1>4. \A k, m : Kbd!Break(k) = Kbd!Break(m) => k = m
  BY <1>2, Zenon
<1> QED BY <1>1, <1>2, <1>3, <1>4, Zenon

LEMMA ModifierInit == Kbd!Init => ModifierInv
  BY Zenon DEF Kbd!Init, ModifierInv, CodesInv

LEMMA ModifierPress ==
  ASSUME ModifierInv, NEW k \in Kbd!Keys, Kbd!Press(k)
  PROVE  ModifierInv'
<1>1. /\ wire = <<>> /\ wire' = Kbd!Down(k)
      /\ held' = IF k = "PAUSE" THEN held ELSE held \cup {k}
      /\ paused' = (paused \/ k = "PAUSE")
      /\ ks' = ks /\ shift' = shift /\ ctrl' = ctrl
  BY Zenon DEF Kbd!Press, Kbd!mode
<1>2. held' \subseteq Kbd!Keys \ {"PAUSE"} /\ paused' \in BOOLEAN
  BY <1>1, Zenon DEF ModifierInv
<1>3. ASSUME ~paused'
      PROVE  /\ CodesInv'
             /\ shift' => \E m \in Kbd!ShiftKeys : m \in held' \/ Breaking(m)'
             /\ ctrl' => "LCTRL" \in held' \/ Breaking("LCTRL")'
  <2>1. ~paused /\ k # "PAUSE" /\ held' = held \cup {k}
    BY <1>1, <1>3, Zenon
  <2>2. \A m : ~Breaking(m)
    BY <1>1, Zenon DEF Breaking
  <2>3. ks = "BASE"
    BY <1>1, <2>1, Zenon DEF ModifierInv, CodesInv, Making, Breaking
  <2>4. CodesInv'
    <3>1. CASE k \in PlainKeys
      <4>1. wire' = <<Kbd!Make(k)>>
        BY <1>1, <2>1, <3>1, Zenon DEF Kbd!Down, PlainKeys
      <4> QED BY <1>1, <2>1, <2>3, <3>1, <4>1, Zenon DEF CodesInv, Making
    <3>2. CASE k = "RCTRL"
      <4>1. wire' = <<Kbd!E0, Kbd!Make("LCTRL")>>
        BY <1>1, <3>2, Zenon DEF Kbd!Down
      <4> QED BY <1>1, <2>3, <4>1, Zenon DEF CodesInv, Extended
    <3>3. CASE k = "UP"
      <4>1. wire' = <<Kbd!E0, Kbd!Make("UP")>>
        BY <1>1, <3>3, Zenon DEF Kbd!Down
      <4> QED BY <1>1, <2>3, <4>1, Zenon DEF CodesInv, Extended
    <3> QED
      BY <2>1, <3>1, <3>2, <3>3, Zenon DEF Kbd!Keys, Kbd!ShiftKeys, Kbd!CtrlKeys, PlainKeys
  <2> QED BY <1>1, <2>1, <2>2, <2>4, Zenon DEF ModifierInv
<1> QED BY <1>2, <1>3, Zenon DEF ModifierInv

LEMMA ModifierRelease ==
  ASSUME ModifierInv, NEW k \in Kbd!Keys, Kbd!Release(k)
  PROVE  ModifierInv'
<1>1. /\ wire = <<>> /\ wire' = Kbd!Up(k) /\ k \in held /\ held' = held \ {k}
      /\ paused' = paused /\ ks' = ks /\ shift' = shift /\ ctrl' = ctrl
  BY Zenon DEF Kbd!Release, Kbd!mode
<1>2. held' \subseteq Kbd!Keys \ {"PAUSE"} /\ paused' \in BOOLEAN /\ k # "PAUSE"
  BY <1>1, Zenon DEF ModifierInv
<1>3. ASSUME ~paused'
      PROVE  /\ CodesInv'
             /\ shift' => \E m \in Kbd!ShiftKeys : m \in held' \/ Breaking(m)'
             /\ ctrl' => "LCTRL" \in held' \/ Breaking("LCTRL")'
  <2>1. ~paused
    BY <1>1, <1>3, Zenon
  <2>2. \A m : ~Breaking(m)
    BY <1>1, Zenon DEF Breaking
  <2>3. ks = "BASE"
    BY <1>1, <2>1, Zenon DEF ModifierInv, CodesInv, Making, Breaking
  <2>4. ASSUME k \in PlainKeys PROVE Breaking(k)'
    <3>1. wire' = <<Kbd!Break(k)>>
      BY <1>1, <2>4, Zenon DEF Kbd!Up, PlainKeys
    <3> QED BY <1>1, <2>3, <3>1, Zenon DEF Breaking
  <2>5. CodesInv'
    <3>1. CASE k \in PlainKeys
      BY <2>4, <3>1, Zenon DEF CodesInv
    <3>2. CASE k = "RCTRL"
      <4>1. wire' = <<Kbd!E0, Kbd!Break("LCTRL")>>
        BY <1>1, <3>2, Zenon DEF Kbd!Up
      <4> QED BY <1>1, <2>3, <4>1, Zenon DEF CodesInv, Extended
    <3>3. CASE k = "UP"
      <4>1. wire' = <<Kbd!E0, Kbd!Break("UP")>>
        BY <1>1, <3>3, Zenon DEF Kbd!Up
      <4> QED BY <1>1, <2>3, <4>1, Zenon DEF CodesInv, Extended
    <3> QED
      BY <1>2, <3>1, <3>2, <3>3, Zenon DEF Kbd!Keys, Kbd!ShiftKeys, Kbd!CtrlKeys, PlainKeys
  <2>6. shift => \E m \in Kbd!ShiftKeys : m \in held' \/ Breaking(m)'
    <3>1. Kbd!ShiftKeys \subseteq PlainKeys
      BY Zenon DEF Kbd!ShiftKeys, PlainKeys
    <3> QED BY <1>1, <2>1, <2>2, <2>4, <3>1, Zenon DEF ModifierInv
  <2>7. ctrl => "LCTRL" \in held' \/ Breaking("LCTRL")'
    <3>1. "LCTRL" \in PlainKeys
      BY Zenon DEF PlainKeys
    <3> QED BY <1>1, <2>1, <2>2, <2>4, <3>1, Zenon DEF ModifierInv
  <2> QED BY <1>1, <2>5, <2>6, <2>7, Zenon
<1> QED BY <1>2, <1>3, Zenon DEF ModifierInv

\* kh() reads the code: what it does to the modifiers, by what the code is.
LEMMA ModifierKh ==
  ASSUME ModifierInv, Kbd!kh
  PROVE  ModifierInv'
<1>1. wire # <<>> /\ wire' = Tail(wire) /\ held' = held /\ paused' = paused
  BY Zenon DEF Kbd!kh
<1>2. ASSUME ~paused'
      PROVE  /\ CodesInv'
             /\ shift' => \E m \in Kbd!ShiftKeys : m \in held' \/ Breaking(m)'
             /\ ctrl' => "LCTRL" \in held' \/ Breaking("LCTRL")'
  <2>1. CodesInv /\ ~paused
    BY <1>1, <1>2, Zenon DEF ModifierInv
  <2>2. /\ shift => \E m \in Kbd!ShiftKeys : m \in held \/ Breaking(m)
        /\ ctrl => "LCTRL" \in held \/ Breaking("LCTRL")
    BY <2>1, Zenon DEF ModifierInv
  <2>3. CASE \E k \in PlainKeys : Making(k) /\ k \in held
    <3>1. PICK k \in PlainKeys : Making(k) /\ k \in held
      BY <2>3, Zenon
    <3>2. wire = <<Kbd!Make(k)>> /\ ks = "BASE" /\ Head(wire) = Kbd!Make(k) /\ Tail(wire) = <<>>
      BY <3>1 DEF Making
    <3>3. \A m : ~Breaking(m)
      BY <3>2, Codes, Zenon DEF Breaking
    <3>4. k \notin {"E0", "E1"} /\ Kbd!Make(k) \notin {Kbd!E0, Kbd!E1}
      BY Codes, Zenon DEF PlainKeys, Kbd!E0, Kbd!E1
    <3>5. /\ shift' = (shift \/ k \in Kbd!ShiftKeys) /\ ctrl' = (ctrl \/ k = "LCTRL")
          /\ ks' = "BASE"
      BY <3>2, <3>4, Codes, Zenon DEF Kbd!kh
    <3>6. CodesInv'
      BY <1>1, <3>2, <3>5, Zenon DEF CodesInv
    <3> QED BY <1>1, <2>2, <3>1, <3>3, <3>5, <3>6, Zenon
  <2>4. CASE \E k \in PlainKeys : Breaking(k)
    <3>1. PICK k \in PlainKeys : Breaking(k)
      BY <2>4, Zenon
    <3>2. wire = <<Kbd!Break(k)>> /\ ks = "BASE" /\ Head(wire) = Kbd!Break(k) /\ Tail(wire) = <<>>
      BY <3>1 DEF Breaking
    <3>3. \A m : Breaking(m) => m = k
      BY <3>2, Codes, Zenon DEF Breaking
    <3>4. Kbd!Break(k) \notin {Kbd!E0, Kbd!E1}
      BY Codes, Zenon DEF Kbd!E0, Kbd!E1
    <3>5. /\ shift' = (shift /\ k \notin Kbd!ShiftKeys) /\ ctrl' = (ctrl /\ k # "LCTRL")
          /\ ks' = "BASE"
      BY <3>2, <3>4, Codes DEF Kbd!kh, Kbd!ReleasesShift
    <3>6. CodesInv'
      BY <1>1, <3>2, <3>5, Zenon DEF CodesInv
    <3> QED BY <1>1, <2>2, <3>3, <3>5, <3>6, Zenon
  <2>5. CASE \E x \in Extended : ks = "BASE" /\ wire = <<Kbd!E0, x>>
    <3>1. PICK x \in Extended : ks = "BASE" /\ wire = <<Kbd!E0, x>>
      BY <2>5, Zenon
    <3>2. Head(wire) = Kbd!E0 /\ Tail(wire) = <<x>> /\ wire # <<Kbd!E0>>
      BY <3>1
    <3>3. \A m : ~Breaking(m)
      BY <3>1, Zenon DEF Breaking
    <3>4. Kbd!E0 # Kbd!E1 /\ Kbd!E0.break = FALSE
      BY Codes, Zenon DEF Kbd!E0, Kbd!E1
    <3>5. ks' = "E0" /\ shift' = shift /\ ctrl' = ctrl
      BY <3>1, <3>2, <3>4, Zenon DEF Kbd!kh
    <3>6. CodesInv'
      BY <1>1, <3>2, <3>5, Zenon DEF CodesInv
    <3> QED BY <1>1, <2>2, <3>3, <3>5, <3>6, Zenon
  <2>6. CASE \E x \in Extended : ks = "E0" /\ wire = <<x>>
    <3>1. PICK x \in Extended : ks = "E0" /\ wire = <<x>>
      BY <2>6, Zenon
    <3>2. Tail(wire) = <<>>
      BY <3>1
    <3>3. \A m : ~Breaking(m)
      BY <3>1, Zenon DEF Breaking
    <3>4. ks' = "BASE" /\ shift' = shift /\ (ctrl' => ctrl)
      BY <3>1, Zenon DEF Kbd!kh
    <3>5. CodesInv'
      BY <1>1, <3>2, <3>4, Zenon DEF CodesInv
    <3> QED BY <1>1, <2>2, <3>3, <3>4, <3>5, Zenon
  <2> QED BY <1>1, <2>1, <2>3, <2>4, <2>5, <2>6, Zenon DEF CodesInv
<1> QED BY <1>1, <1>2, Zenon DEF ModifierInv

LEMMA ModifierUnchanged == ModifierInv /\ UNCHANGED <<Kbd!mode, Kbd!keys>> => ModifierInv'
  BY DEF ModifierInv, CodesInv, Making, Breaking, Kbd!mode, Kbd!keys

\* NoStuckModifier: kh() leaves no modifier set whose keys are all up, before
\* Pause is pressed; for any sequence of keys, readers and size of the ring.
THEOREM NoStuckModifierAlways == Kbd!Spec => []NoStuckModifier
<1>1. ModifierInv /\ [Kbd!Next]_Kbd!vars => ModifierInv'
  <2> SUFFICES ASSUME ModifierInv, [Kbd!Next]_Kbd!vars PROVE ModifierInv'
    BY Zenon
  <2>1. ASSUME NEW k \in Kbd!Keys, Kbd!Press(k) \/ Kbd!Release(k) PROVE ModifierInv'
    BY <2>1, ModifierPress, ModifierRelease, Zenon
  <2>2. CASE Kbd!kh
    BY <2>2, ModifierKh, Zenon
  <2>3. ASSUME NEW r \in Readers,
               \/ Kbd!getchar(r) \/ Kbd!wait(r) \/ Kbd!getchar_load(r)
               \/ Kbd!getchar_take(r) \/ Kbd!return(r)
        PROVE  ModifierInv'
    BY Zenon, <2>3, ModifierUnchanged
       DEF Kbd!getchar, Kbd!wait, Kbd!getchar_load, Kbd!getchar_take, Kbd!return
  <2>4. CASE UNCHANGED Kbd!vars
    BY <2>4, ModifierUnchanged, Zenon DEF Kbd!vars
  <2> QED BY <2>1, <2>2, <2>3, <2>4, Zenon DEF Kbd!Next
<1>2. ModifierInv => NoStuckModifier
  <2> SUFFICES ASSUME ModifierInv, wire = <<>>, ~paused
               PROVE  (shift => held \cap Kbd!ShiftKeys # {}) /\ (ctrl => "LCTRL" \in held)
    BY Zenon DEF NoStuckModifier, Kbd!NoStuckModifier
  <2>1. \A m : ~Breaking(m)
    BY Zenon DEF Breaking
  <2> QED BY <2>1, Zenon DEF ModifierInv
<1> QED BY ModifierInit, <1>1, <1>2, PTL DEF Kbd!Spec

-----------------------------------------------------------------------------
(* The ring of the keyboard.                                               *)

\* Byte k + 1 of those queued has slot k % RingSize; the ring holds the bytes
\* from Len(got) on, and one slot stays free.  Only a reader that waits has an
\* index loaded, and t is still that index.
KeyRingInv ==
  /\ serial \in Nat /\ kaccepted \in Seq(Nat) /\ got \in Seq(Nat) /\ kq \in [Kbd!Slots -> Nat]
  /\ Len(got) <= Len(kaccepted) /\ Len(kaccepted) - Len(got) < RingSize
  /\ kh = Len(kaccepted) % RingSize /\ kt = Len(got) % RingSize
  /\ \A k \in Nat : Len(got) <= k /\ k < Len(kaccepted) => kq[k % RingSize] = kaccepted[k + 1]
  /\ \A j \in 1 .. Len(got) : got[j] = kaccepted[j]
  /\ reading \in [Readers -> [at : {"out", "on"}, t : Int]]
  /\ \A r \in Readers : reading[r].t # Kbd!NoIndex =>
       reading[r].at = "on" /\ reading[r].t = kt /\ Len(got) < Len(kaccepted)

LEMMA KeyRingInit == Kbd!Init => KeyRingInv
<1> SUFFICES ASSUME Kbd!Init PROVE KeyRingInv
  BY Zenon
<1>1. /\ kq = [i \in Kbd!Slots |-> 0] /\ kh = 0 /\ kt = 0
      /\ kaccepted = <<>> /\ got = <<>> /\ serial = 0
      /\ reading = [r \in Readers |-> [at |-> "out", t |-> Kbd!NoIndex]]
  BY Zenon DEF Kbd!Init
<1>2. /\ Len(kaccepted) = 0 /\ Len(got) = 0 /\ kaccepted \in Seq(Nat) /\ got \in Seq(Nat)
      /\ kq \in [Kbd!Slots -> Nat] /\ serial \in Nat
  BY <1>1
<1>3. RingSize \in Nat /\ RingSize > 0 /\ 0 \in Int /\ 0 <= 0 /\ 0 < RingSize /\ 0 - 0 < RingSize
  BY DevicesAssumption
<1>4. 0 % RingSize = 0
  BY <1>3, ModSmall, Zenon
<1>5. /\ \A k \in Nat : ~(k < Len(kaccepted))
      /\ \A j \in 1 .. Len(got) : got[j] = kaccepted[j]
  BY <1>2
<1>6. /\ reading \in [Readers -> [at : {"out", "on"}, t : Int]]
      /\ \A r \in Readers : reading[r].t = Kbd!NoIndex
  BY <1>1 DEF Kbd!NoIndex
<1>7. kh = Len(kaccepted) % RingSize /\ kt = Len(got) % RingSize
  BY <1>1, <1>2, <1>4, Zenon
<1>8. Len(got) <= Len(kaccepted) /\ Len(kaccepted) - Len(got) < RingSize
  BY <1>2, <1>3, Zenon
<1> QED
  BY <1>2, <1>5, <1>6, <1>7, <1>8, Zenon DEF KeyRingInv

\* putc_q() finds the ring full exactly when RingSize - 1 bytes are in it.
LEMMA FullWhen ==
  ASSUME KeyRingInv, NEW j \in Nat, Len(kaccepted) + j - Len(got) < RingSize
  PROVE  Kbd!IsFull((kh + j) % RingSize, kt) <=> Len(kaccepted) + j - Len(got) = RingSize - 1
<1> DEFINE A == Len(kaccepted)
           G == Len(got)
           N == RingSize
<1>1. A \in Nat /\ G \in Nat /\ G <= A /\ N \in Nat /\ N > 1 /\ kh = A % N /\ kt = G % N
  BY DevicesAssumption DEF KeyRingInv
<1>2. N > 0 /\ A \in Int /\ j \in Int /\ A + j \in Int /\ 1 \in Int /\ A + j + 1 \in Int /\ G \in Int
  BY <1>1
<1>3. (kh + j) % N = (A + j) % N
  BY <1>1, <1>2, ModPlus, Zenon
<1>4. (((A + j) % N) + 1) % N = (A + j + 1) % N
  BY <1>1, <1>2, ModPlus, Zenon
<1>5. Kbd!IsFull((kh + j) % N, kt) <=> (A + j + 1) % N = G % N
  BY <1>1, <1>3, <1>4, Zenon DEF Kbd!IsFull, Kbd!NextIndex
<1>6. CASE A + j - G = N - 1
  <2>1. A + j + 1 = G + N
    BY <1>1, <1>2, <1>6
  <2>2. (G + N) % N = G % N
    BY <1>1, <1>2, ModWrap, Zenon
  <2> QED BY <1>5, <1>6, <2>1, <2>2, Zenon
<1>7. CASE A + j - G # N - 1
  <2>1. (A + j + 1) - G < N /\ G - (A + j + 1) < N /\ A + j + 1 # G
    BY <1>1, <1>2, <1>7
  <2>2. (A + j + 1) % N # G % N
    BY <1>1, <1>2, <2>1, ModInjective, Zenon
  <2> QED BY <1>5, <1>7, <2>2, Zenon
<1> QED BY <1>6, <1>7, Zenon

\* putc_q_str() queues as many of the n bytes as fit.
LEMMA KeyRingPut ==
  ASSUME KeyRingInv, NEW n \in Nat, Kbd!Put(n), kt' = kt, got' = got, reading' = reading
  PROVE  KeyRingInv'
<1> DEFINE A == Len(kaccepted)
           G == Len(got)
           N == RingSize
           space == N - 1 - (A - G)
           Fits(m) == /\ \A j \in 0 .. m - 1 : ~Kbd!IsFull((kh + j) % N, kt)
                      /\ m < n => Kbd!IsFull((kh + m) % N, kt)
           room == CHOOSE m \in 0 .. n : Fits(m)
           new == [j \in 1 .. room |-> serial + j]
<1>1. /\ A \in Nat /\ G \in Nat /\ G <= A /\ A - G < N /\ N \in Nat /\ N > 1 /\ serial \in Nat
      /\ kh = A % N /\ kt = G % N
  BY DevicesAssumption DEF KeyRingInv
<1>2. space \in Nat
  BY <1>1
<1>3. \A j \in Nat : j <= space => (Kbd!IsFull((kh + j) % N, kt) <=> j = space)
  <2> SUFFICES ASSUME NEW j \in Nat, j <= space
               PROVE  Kbd!IsFull((kh + j) % N, kt) <=> j = space
    BY Zenon
  <2>1. A + j - G < N /\ (A + j - G = N - 1 <=> j = space)
    BY <1>1
  <2> QED BY <2>1, FullWhen, Zenon
<1>4. /\ kq' = [i \in Kbd!Slots |-> IF (i - kh) % N < room THEN serial + 1 + ((i - kh) % N)
                                    ELSE kq[i]]
      /\ kh' = (kh + room) % N /\ kaccepted' = kaccepted \o new /\ serial' = serial + n
  BY Zenon DEF Kbd!Put
<1>5. \E m \in 0 .. n : Fits(m)
  <2> HIDE DEF space
  <2>1. CASE n <= space
    <3>1. \A j \in 0 .. n - 1 : j \in Nat /\ j <= space /\ j # space
      BY <1>2, <2>1
    <3>2. n \in 0 .. n /\ ~(n < n)
      OBVIOUS
    <3>3. Fits(n)
      BY <1>3, <3>1, <3>2, Zenon
    <3> QED BY <3>2, <3>3, Zenon
  <2>2. CASE space < n
    <3>1. \A j \in 0 .. space - 1 : j \in Nat /\ j <= space /\ j # space
      BY <1>2
    <3>2. space \in 0 .. n /\ space <= space
      BY <1>2, <2>2
    <3>3. Fits(space)
      BY <1>2, <1>3, <3>1, <3>2, Zenon
    <3> QED BY <3>2, <3>3, Zenon
  <2> QED BY <1>2, <2>1, <2>2
<1>6. room \in 0 .. n /\ Fits(room)
  <2> HIDE DEF Fits
  <2> QED BY <1>5, Zenon
<1>7. room <= space
  <2> SUFFICES ASSUME room > space PROVE FALSE
    BY <1>2, <1>6
  <2>1. space \in 0 .. room - 1 /\ space <= space
    BY <1>2, <1>6
  <2> HIDE DEF space, room
  <2> QED BY <1>2, <1>3, <1>6, <2>1, Zenon
<1> HIDE DEF room, Fits
<1>8. room \in Nat /\ A + room - G < N
  BY <1>1, <1>6, <1>7
<1>9. /\ new \in Seq(Nat) /\ Len(new) = room /\ \A j \in 1 .. room : new[j] = serial + j
      /\ serial' \in Nat
  BY <1>1, <1>4, <1>8
<1> HIDE DEF new
<1>10. /\ kaccepted' \in Seq(Nat) /\ Len(kaccepted') = A + room
       /\ \A j \in 1 .. A + room :
            kaccepted'[j] = IF j <= A THEN kaccepted[j] ELSE new[j - A]
  <2>1. kaccepted \in Seq(Nat) /\ new \in Seq(Nat) /\ Len(new) = room
    BY <1>9, Zenon DEF KeyRingInv
  <2>2. /\ kaccepted \o new \in Seq(Nat) /\ Len(kaccepted \o new) = A + Len(new)
        /\ \A j \in 1 .. A + Len(new) :
             (kaccepted \o new)[j] = IF j <= A THEN kaccepted[j] ELSE new[j - A]
    BY <2>1, ConcatProperties, Zenon
  <2> QED BY <1>4, <2>1, <2>2, Zenon
<1>11. kh' = (A + room) % N
  <2>1. N > 0 /\ A \in Int /\ room \in Int
    BY <1>1, <1>8
  <2> QED BY <1>1, <1>4, <2>1, ModPlus, Zenon
<1>12. \A i \in Kbd!Slots : (i - kh) % N = (i - A) % N
  <2> SUFFICES ASSUME NEW i \in Kbd!Slots PROVE (i - (A % N)) % N = (i - A) % N
    BY <1>1, Zenon
  <2>1. N > 0 /\ A \in Int /\ i \in Int
    BY <1>1 DEF Kbd!Slots
  <2> QED BY <1>1, <2>1, ModMinus, Zenon
<1>13. kq' \in [Kbd!Slots -> Nat]
  <2>1. \A i \in Kbd!Slots : (i - kh) % N \in Nat
    <3> SUFFICES ASSUME NEW i \in Kbd!Slots PROVE (i - A) % N \in Nat
      BY <1>12, Zenon
    <3> QED BY <1>1, ModType DEF Kbd!Slots
  <2>2. \A i \in Kbd!Slots : serial + 1 + ((i - kh) % N) \in Nat
    BY <1>1, <2>1
  <2> QED BY <1>4, <2>2, Zenon DEF KeyRingInv
<1>14. ASSUME NEW k \in Nat, G <= k, k < A + room
       PROVE  kq'[k % N] = kaccepted'[k + 1]
  <2>1. k % N \in Kbd!Slots
    BY <1>1, ModType DEF Kbd!Slots
  <2>2. ((k % N) - kh) % N = (k - A) % N
    <3>1. N > 0 /\ k \in Int /\ -A \in Int /\ (k % N) + (-A) = (k % N) - A /\ k + (-A) = k - A
      BY <1>1, <2>1 DEF Kbd!Slots
    <3>2. ((k % N) + (-A)) % N = (k + (-A)) % N
      BY <1>1, <3>1, ModPlus, Zenon
    <3> QED BY <1>12, <2>1, <3>1, <3>2, Zenon
  <2>3. CASE k < A
    <3>1. k - A + N \in Int /\ 0 <= k - A + N /\ k - A + N < N /\ ~(k - A + N < room) /\ N > 0 /\ k - A \in Int
      BY <1>1, <1>8, <1>14, <2>3
    <3>2. (k - A + N) % N = k - A + N
      BY <1>1, <3>1, ModSmall, Zenon
    <3>3. (k - A + N) % N = (k - A) % N
      BY <1>1, <3>1, ModWrap, Zenon
    <3>4. ~(((k % N) - kh) % N < room)
      BY <2>2, <3>1, <3>2, <3>3, Zenon
    <3>5. kq'[k % N] = kq[k % N]
      BY <1>4, <2>1, <3>4, Zenon
    <3>6. kq[k % N] = kaccepted[k + 1]
      BY <1>14, <2>3, Zenon DEF KeyRingInv
    <3>7. k + 1 \in 1 .. A + room /\ k + 1 <= A
      BY <1>1, <1>8, <2>3
    <3> QED BY <1>10, <3>5, <3>6, <3>7, Zenon
  <2>4. CASE k >= A
    <3>1. k - A \in Int /\ 0 <= k - A /\ k - A < N /\ k - A < room /\ N > 0
      BY <1>1, <1>8, <1>14, <2>4
    <3>2. (k - A) % N = k - A
      BY <1>1, <3>1, ModSmall, Zenon
    <3>3. kq'[k % N] = serial + 1 + (k - A)
      BY <1>4, <2>1, <2>2, <3>1, <3>2, Zenon
    <3>4. k + 1 \in 1 .. A + room /\ ~(k + 1 <= A) /\ (k + 1) - A \in 1 .. room
      BY <1>1, <1>8, <1>14, <2>4
    <3>5. kaccepted'[k + 1] = serial + ((k + 1) - A)
      BY <1>9, <1>10, <3>4, Zenon
    <3> QED BY <1>1, <3>3, <3>5
  <2> QED BY <1>1, <2>3, <2>4
<1>15. \A j \in 1 .. G : got[j] = kaccepted'[j]
  <2> SUFFICES ASSUME NEW j \in 1 .. G PROVE got[j] = kaccepted'[j]
    BY Zenon
  <2>1. j \in 1 .. A + room /\ j <= A
    BY <1>1, <1>8
  <2> QED BY <1>10, <2>1, Zenon DEF KeyRingInv
<1>16. /\ Len(got') <= Len(kaccepted') /\ Len(kaccepted') - Len(got') < N
       /\ G < A => Len(got') < Len(kaccepted')
  BY <1>1, <1>8, <1>10
<1>17. kh' = Len(kaccepted') % N /\ kt' = Len(got') % N /\ got' \in Seq(Nat)
  BY <1>1, <1>10, <1>11, Zenon DEF KeyRingInv
<1>18. /\ reading' \in [Readers -> [at : {"out", "on"}, t : Int]]
       /\ \A r \in Readers : reading'[r].t # Kbd!NoIndex =>
            reading'[r].at = "on" /\ reading'[r].t = kt' /\ Len(got') < Len(kaccepted')
  BY <1>16, Zenon DEF KeyRingInv
<1>19. \A k \in Nat : Len(got') <= k /\ k < Len(kaccepted') => kq'[k % N] = kaccepted'[k + 1]
  BY <1>10, <1>14, Zenon
<1>20. \A j \in 1 .. Len(got') : got'[j] = kaccepted'[j]
  BY <1>15, Zenon
<1> QED
  BY <1>9, <1>10, <1>13, <1>16, <1>17, <1>18, <1>19, <1>20, Zenon DEF KeyRingInv

LEMMA KeyRingUnchanged ==
  KeyRingInv /\ UNCHANGED <<kq, kh, kt, kaccepted, got, serial, reading>> => KeyRingInv'
  BY Zenon DEF KeyRingInv

LEMMA KeyRingKh ==
  ASSUME KeyRingInv, Kbd!kh
  PROVE  KeyRingInv'
<1>1. kt' = kt /\ got' = got /\ reading' = reading
  BY Zenon DEF Kbd!kh
<1>2. Kbd!Nothing \/ Kbd!Put(1) \/ Kbd!Put(3)
  BY Zenon DEF Kbd!kh
<1>3. CASE Kbd!Nothing
  BY <1>1, <1>3, KeyRingUnchanged, Zenon DEF Kbd!Nothing
<1>4. ASSUME NEW n \in Nat, Kbd!Put(n) PROVE KeyRingInv'
  BY <1>1, <1>4, KeyRingPut, Zenon
<1> QED BY <1>2, <1>3, <1>4, Zenon

\* A byte is taken at t, by the reader that runs alone.
LEMMA KeyRingTake ==
  ASSUME KeyRingInv, Len(got) < Len(kaccepted),
         got' = Append(got, kq[kt]), kt' = Kbd!NextIndex(kt),
         UNCHANGED <<kq, kh, kaccepted, serial>>,
         reading' \in [Readers -> [at : {"out", "on"}, t : Int]],
         \A r \in Readers : reading'[r].t = Kbd!NoIndex
  PROVE  KeyRingInv'
<1> DEFINE A == Len(kaccepted)
           G == Len(got)
           N == RingSize
<1>1. /\ A \in Nat /\ G \in Nat /\ G < A /\ A - G < N /\ N \in Nat /\ N > 1
      /\ kt = G % N /\ kq[G % N] = kaccepted[G + 1] /\ kaccepted[G + 1] \in Nat
  <2>1. A \in Nat /\ G \in Nat /\ G < A /\ A - G < N /\ kt = G % N
    BY DEF KeyRingInv
  <2>2. G <= G /\ G + 1 \in 1 .. A
    BY <2>1
  <2>3. kq[G % N] = kaccepted[G + 1]
    BY <2>1, <2>2, Zenon DEF KeyRingInv
  <2>4. kaccepted[G + 1] \in Nat
    BY <2>2 DEF KeyRingInv
  <2> QED BY <2>1, <2>3, <2>4, DevicesAssumption, Zenon
<1>2. got' = Append(got, kaccepted[G + 1])
  BY <1>1, Zenon
<1>3. /\ got' \in Seq(Nat) /\ Len(got') = G + 1 /\ got'[G + 1] = kaccepted[G + 1]
      /\ \A j \in 1 .. G : got'[j] = got[j]
  BY <1>1, <1>2 DEF KeyRingInv
<1>4. kt' = Len(got') % N
  <2>1. N > 0 /\ G \in Int /\ 1 \in Int
    BY <1>1
  <2>2. ((G % N) + 1) % N = (G + 1) % N
    BY <1>1, <2>1, ModPlus, Zenon
  <2> QED BY <1>1, <1>3, <2>2, Zenon DEF Kbd!NextIndex
<1>5. \A j \in 1 .. Len(got') : got'[j] = kaccepted'[j]
  <2>1. \A j \in 1 .. G : got'[j] = kaccepted[j]
    BY <1>3, Zenon DEF KeyRingInv
  <2> QED BY <1>1, <1>3, <2>1
<1>6. Len(got') <= Len(kaccepted') /\ Len(kaccepted') - Len(got') < N
  BY <1>1, <1>3
<1>7. \A k \in Nat : Len(got') <= k /\ k < Len(kaccepted') => kq'[k % N] = kaccepted'[k + 1]
  <2> SUFFICES ASSUME NEW k \in Nat, G + 1 <= k, k < A PROVE kq[k % N] = kaccepted[k + 1]
    BY <1>3, Zenon
  <2>1. G <= k
    BY <1>1
  <2> QED BY <2>1, Zenon DEF KeyRingInv
<1>8. /\ kh' = Len(kaccepted') % N /\ serial' \in Nat /\ kaccepted' \in Seq(Nat)
      /\ kq' \in [Kbd!Slots -> Nat]
  BY Zenon DEF KeyRingInv
<1> QED
  BY <1>3, <1>4, <1>5, <1>6, <1>7, <1>8, Zenon DEF KeyRingInv

\* The ring is empty exactly when h and t meet.
LEMMA KeyRingEmpty == KeyRingInv => (kt # kh => Len(got) < Len(kaccepted))
<1> SUFFICES ASSUME KeyRingInv, kt # kh PROVE Len(got) < Len(kaccepted)
  BY Zenon
<1>1. Len(got) # Len(kaccepted)
  BY Zenon DEF KeyRingInv
<1> QED BY <1>1 DEF KeyRingInv

LEMMA KeyRingReader ==
  ASSUME KeyRingInv, NEW r \in Readers, \A s \in Readers : s = r,
         \/ Kbd!getchar(r) \/ Kbd!wait(r) \/ Kbd!getchar_load(r)
         \/ Kbd!getchar_take(r) \/ Kbd!return(r)
  PROVE  KeyRingInv'
<1>1. /\ reading \in [Readers -> [at : {"out", "on"}, t : Int]]
      /\ reading[r] \in [at : {"out", "on"}, t : Int]
      /\ reading[r].t # Kbd!NoIndex =>
           reading[r].at = "on" /\ reading[r].t = kt /\ Len(got) < Len(kaccepted)
  BY Zenon DEF KeyRingInv
<1>2. kt \in Int
  <2>1. Len(got) \in Int /\ RingSize \in Nat /\ RingSize > 0 /\ kt = Len(got) % RingSize
    BY DevicesAssumption DEF KeyRingInv
  <2> QED BY <2>1, ModType, Zenon
<1>3. CASE Kbd!getchar(r)
  <2>1. /\ reading[r].at = "out" /\ kt # kh /\ got' = Append(got, kq[kt])
        /\ kt' = Kbd!NextIndex(kt) /\ reading' = reading /\ UNCHANGED <<kq, kh, kaccepted, serial>>
    BY <1>3, Zenon DEF Kbd!getchar
  <2>2. \A s \in Readers : reading'[s].t = Kbd!NoIndex
    BY <1>1, <2>1, Zenon
  <2> QED BY <1>1, <2>1, <2>2, KeyRingTake, KeyRingEmpty, Zenon
<1>4. CASE Kbd!getchar_take(r)
  <2>1. PICK at \in {"on", "out"} :
          reading' = [reading EXCEPT ![r] = [at |-> at, t |-> Kbd!NoIndex]]
    BY <1>4, Zenon DEF Kbd!getchar_take
  <2>2. /\ reading[r].t # Kbd!NoIndex /\ got' = Append(got, kq[reading[r].t])
        /\ kt' = Kbd!NextIndex(reading[r].t) /\ UNCHANGED <<kq, kh, kaccepted, serial>>
    BY <1>4, Zenon DEF Kbd!getchar_take
  <2>3. /\ reading' \in [Readers -> [at : {"out", "on"}, t : Int]]
        /\ \A s \in Readers : reading'[s].t = Kbd!NoIndex
    BY <1>1, <2>1 DEF Kbd!NoIndex
  <2>4. got' = Append(got, kq[kt]) /\ kt' = Kbd!NextIndex(kt) /\ Len(got) < Len(kaccepted)
    BY <1>1, <2>2, Zenon
  <2> QED BY <2>2, <2>3, <2>4, KeyRingTake, Zenon
<1>5. ASSUME UNCHANGED <<kq, kh, kt, kaccepted, got, serial>>,
             reading' \in [Readers -> [at : {"out", "on"}, t : Int]],
             reading'[r].t # Kbd!NoIndex =>
               reading'[r].at = "on" /\ reading'[r].t = kt /\ Len(got) < Len(kaccepted)
      PROVE  KeyRingInv'
  <2>1. \A s \in Readers : reading'[s].t # Kbd!NoIndex =>
          reading'[s].at = "on" /\ reading'[s].t = kt' /\ Len(got') < Len(kaccepted')
    BY <1>5, Zenon
  <2> QED BY <1>5, <2>1, Zenon DEF KeyRingInv
<1>6. CASE Kbd!wait(r)
  <2>1. /\ reading' = [reading EXCEPT ![r].at = "on"]
        /\ UNCHANGED <<kq, kh, kt, kaccepted, got, serial>>
    BY <1>6, Zenon DEF Kbd!wait, Kbd!ring
  <2>2. /\ reading' \in [Readers -> [at : {"out", "on"}, t : Int]]
        /\ reading'[r].t = reading[r].t /\ reading'[r].at = "on"
    BY <1>1, <2>1, Zenon
  <2> QED BY <1>1, <1>5, <2>1, <2>2, Zenon
<1>7. CASE Kbd!getchar_load(r)
  <2>1. /\ reading' = [reading EXCEPT ![r].t = kt] /\ reading[r].at = "on" /\ kt # kh
        /\ UNCHANGED <<kq, kh, kt, kaccepted, got, serial>>
    BY <1>7 DEF Kbd!getchar_load, Kbd!ring
  <2>2. /\ reading' \in [Readers -> [at : {"out", "on"}, t : Int]]
        /\ reading'[r].t = kt /\ reading'[r].at = "on"
    BY <1>1, <1>2, <2>1, Zenon
  <2> QED BY <1>1, <1>5, <2>1, <2>2, KeyRingEmpty, Zenon
<1>8. CASE Kbd!return(r)
  <2>1. /\ reading' = [reading EXCEPT ![r].at = "out"] /\ reading[r].t = Kbd!NoIndex
        /\ UNCHANGED <<kq, kh, kt, kaccepted, got, serial>>
    BY <1>8 DEF Kbd!return, Kbd!ring
  <2>2. /\ reading' \in [Readers -> [at : {"out", "on"}, t : Int]]
        /\ reading'[r].t = Kbd!NoIndex
    BY <1>1, <2>1, Zenon
  <2> QED BY <1>1, <1>5, <2>1, <2>2, Zenon
<1> QED BY <1>3, <1>4, <1>6, <1>7, <1>8, Zenon

\* The bytes in the ring are those queued and not yet delivered.
LEMMA KeyRingDelivered == KeyRingInv => DeliveredOnce
<1> SUFFICES ASSUME KeyRingInv PROVE got \o Kbd!Unread = kaccepted
  BY Zenon DEF DeliveredOnce, Kbd!DeliveredOnce
<1> DEFINE A == Len(kaccepted)
           G == Len(got)
           N == RingSize
           u == Kbd!Unread
<1>1. /\ A \in Nat /\ G \in Nat /\ G <= A /\ A - G < N /\ N \in Nat /\ N > 0
      /\ kh = A % N /\ kt = G % N /\ A \in Int /\ G \in Int
  BY DevicesAssumption DEF KeyRingInv
<1>2. (kh - kt) % N = A - G
  <2>1. A % N \in Int /\ -G \in Int
    BY <1>1, ModType
  <2>2. ((A % N) - (G % N)) % N = ((A % N) - G) % N
    BY <1>1, <2>1, ModMinus, Zenon
  <2>3. ((A % N) + (-G)) % N = (A + (-G)) % N
    BY <1>1, <2>1, ModPlus, Zenon
  <2>4. (A % N) + (-G) = (A % N) - G /\ A + (-G) = A - G /\ A - G \in Int /\ 0 <= A - G
    BY <1>1, <2>1
  <2>5. (A - G) % N = A - G
    BY <1>1, <2>4, ModSmall, Zenon
  <2> QED BY <1>1, <2>2, <2>3, <2>4, <2>5, Zenon
<1>3. \A j \in 1 .. A - G : kq[(kt + j - 1) % N] = kaccepted[G + j]
  <2> SUFFICES ASSUME NEW j \in 1 .. A - G PROVE kq[(kt + j - 1) % N] = kaccepted[G + j]
    BY Zenon
  <2>1. G % N \in Int /\ j - 1 \in Int
    BY <1>1, ModType
  <2>2. (G % N) + j - 1 = (G % N) + (j - 1)
    BY <2>1, Zenon
  <2>3. ((G % N) + (j - 1)) % N = (G + (j - 1)) % N
    BY <1>1, <2>1, ModPlus, Zenon
  <2>4. G + (j - 1) \in Nat /\ G <= G + (j - 1) /\ G + (j - 1) < A /\ (G + (j - 1)) + 1 = G + j
    BY <1>1
  <2>5. kq[(G + (j - 1)) % N] = kaccepted[G + j]
    BY <2>4, Zenon DEF KeyRingInv
  <2> QED BY <1>1, <2>2, <2>3, <2>5, Zenon
<1>4. u = [j \in 1 .. A - G |-> kaccepted[G + j]]
  BY <1>2, <1>3, Zenon DEF Kbd!Unread
<1> HIDE DEF u
<1>5. u \in Seq(Nat) /\ Len(u) = A - G /\ \A j \in 1 .. A - G : u[j] = kaccepted[G + j]
  <2>1. \A j \in 1 .. A - G : kaccepted[G + j] \in Nat
    <3> SUFFICES ASSUME NEW j \in 1 .. A - G PROVE kaccepted[G + j] \in Nat
      BY Zenon
    <3>1. G + j \in 1 .. A
      BY <1>1
    <3> QED BY <3>1 DEF KeyRingInv
  <2>2. A - G \in Nat
    BY <1>1
  <2> QED BY <1>4, <2>1, <2>2
<1>6. got \in Seq(Nat) /\ kaccepted \in Seq(Nat)
  BY Zenon DEF KeyRingInv
<1>7. /\ got \o u \in Seq(Nat) /\ Len(got \o u) = A
      /\ \A j \in 1 .. A : (got \o u)[j] = IF j <= G THEN got[j] ELSE u[j - G]
  <2>1. Len(got) + Len(u) = A
    BY <1>1, <1>5
  <2>2. /\ got \o u \in Seq(Nat) /\ Len(got \o u) = Len(got) + Len(u)
        /\ \A j \in 1 .. Len(got) + Len(u) :
             (got \o u)[j] = IF j <= Len(got) THEN got[j] ELSE u[j - Len(got)]
    BY <1>5, <1>6, ConcatProperties, Zenon
  <2> QED BY <2>1, <2>2, Zenon
<1>8. \A j \in 1 .. A : (got \o u)[j] = kaccepted[j]
  <2> SUFFICES ASSUME NEW j \in 1 .. A PROVE (got \o u)[j] = kaccepted[j]
    BY Zenon
  <2>1. CASE j <= G
    <3>1. j \in 1 .. G
      BY <1>1, <2>1
    <3> QED BY <1>7, <2>1, <3>1, Zenon DEF KeyRingInv
  <2>2. CASE ~(j <= G)
    <3>1. j - G \in 1 .. A - G /\ G + (j - G) = j
      BY <1>1, <2>2
    <3> QED BY <1>5, <1>7, <2>2, <3>1, Zenon
  <2> QED BY <2>1, <2>2, Zenon
<1> QED BY <1>6, <1>7, <1>8, SeqEqual, Zenon DEF u

\* DeliveredOnce, "Every byte is delivered to exactly one reader" (the comment at
\* kread()), for one reader: what it got and what the ring holds are the bytes that
\* kh() queued, for every size of the ring and any number of keys.
THEOREM DeliveredOnceAlways ==
  ASSUME \A r, s \in Readers : r = s
  PROVE  Kbd!Spec => []DeliveredOnce
<1>1. KeyRingInv /\ [Kbd!Next]_Kbd!vars => KeyRingInv'
  <2> SUFFICES ASSUME KeyRingInv, [Kbd!Next]_Kbd!vars PROVE KeyRingInv'
    BY Zenon
  <2>1. ASSUME NEW k \in Kbd!Keys, Kbd!Press(k) \/ Kbd!Release(k) PROVE KeyRingInv'
    BY <2>1, KeyRingUnchanged, Zenon DEF Kbd!Press, Kbd!Release, Kbd!ring
  <2>2. CASE Kbd!kh
    BY <2>2, KeyRingKh, Zenon
  <2>3. ASSUME NEW r \in Readers,
               \/ Kbd!getchar(r) \/ Kbd!wait(r) \/ Kbd!getchar_load(r)
               \/ Kbd!getchar_take(r) \/ Kbd!return(r)
        PROVE  KeyRingInv'
    BY <2>3, KeyRingReader, Zenon
  <2>4. CASE UNCHANGED Kbd!vars
    BY <2>4, KeyRingUnchanged, Zenon DEF Kbd!vars, Kbd!ring
  <2> QED BY <2>1, <2>2, <2>3, <2>4, Zenon DEF Kbd!Next
<1> QED BY KeyRingInit, KeyRingDelivered, <1>1, PTL DEF Kbd!Spec

=============================================================================
