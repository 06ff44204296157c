--------------------------- MODULE ProtocolProofs ---------------------------
(***************************************************************************)
(* The protocols beside TCP, for every value of the constants: the lease   *)
(* of net/net_dhcp.c, the neighbour table of net/net_arp.c and the         *)
(* datagram sockets of net/net.c.  A lease is told from one that is over   *)
(* as long as it stays below half the range of the tick counter (about     *)
(* 248 days).                                                              *)
(***************************************************************************)
EXTENDS Dhcp, Neighbours, Datagrams, Sequences, WellFoundedInduction, TLAPS

\* What servers send: any T1 and T2, and a lease that the signed comparison of
\* Due can tell from one that is over.
ShortLeases ==
  /\ Wrap \in Nat \ {0} /\ SecsCap \in Nat
  /\ Leases \subseteq [lease : Nat, t1 : Nat, t2 : Nat]
  /\ \A l \in Leases : l.lease <= SecsCap /\ 2 * l.lease < Wrap

Extends == {"BOUND", "RENEWING", "REBINDING"}

IsState(r) ==
  r = [state |-> r.state, ip |-> r.ip, retries |-> r.retries, wait |-> r.wait, last |-> r.last,
       timed |-> r.timed, t1 |-> r.t1, t2 |-> r.t2, expire |-> r.expire]

LeaseTypeOK ==
  /\ IsState(dhcp)
  /\ dhcp.state \in Extends \cup {"WAIT_OFFER", "WAIT_ACK", "DONE"}
  /\ dhcp.ip \in {"none", "leased", "static"}
  /\ dhcp.retries \in Nat /\ dhcp.wait \in Nat /\ dhcp.last \in Nat
  /\ dhcp.t1 \in 0 .. Wrap - 1 /\ dhcp.t2 \in 0 .. Wrap - 1 /\ dhcp.expire \in 0 .. Wrap - 1
  /\ left \in Int

\* While a lease runs, expire is what is left of it, and there is some.
LeaseTracked ==
  dhcp.state \in Extends =>
    dhcp.timed /\ dhcp.ip = "leased" /\ dhcp.expire = left /\ left >= 1 /\ 2 * left < Wrap

\* Without a running lease there is no leased address, or one without an end.
NoLease ==
  /\ dhcp.state \in {"WAIT_OFFER", "WAIT_ACK"} => dhcp.ip = "none"
  /\ dhcp.state = "DONE" /\ dhcp.ip = "leased" => left = Forever

LeaseInv == LeaseTypeOK /\ LeaseTracked /\ NoLease /\ DeadlinesOrdered /\ (dhcp.state = "BOUND" => dhcp.t1 >= 1)

LEMMA ModBelow ==
  ASSUME NEW w \in Nat \ {0}, NEW x \in 0 .. w - 1
  PROVE  x % w = x
  OBVIOUS

LEMMA ModRange ==
  ASSUME NEW w \in Nat \ {0}, NEW x \in Int
  PROVE  x % w \in 0 .. w - 1
  OBVIOUS

LEMMA InitOK == ASSUME ShortLeases, Init PROVE LeaseInv
<1>1. IsState(dhcp)
  BY Zenon DEF Init, IsState
<1>2. QED
  BY <1>1 DEF ShortLeases, Init, LeaseInv, LeaseTypeOK, LeaseTracked, NoLease, DeadlinesOrdered, Extends,
              Forever, FirstWait

\* A grant sets the deadlines in order and within the range that Due compares.
LEMMA ArmedInRange ==
  ASSUME ShortLeases, NEW l \in Leases, l.lease # 0, NEW r1 \in Nat, NEW r2 \in Nat
  PROVE  LET c == Clamped(r1, r2, AtLeast1(secs_to_ticks(l.lease)))
         IN  /\ c.t1 \in 1 .. c.t2 /\ c.t2 \in 1 .. c.expire
             /\ c.expire = l.lease /\ c.expire \in 1 .. Wrap - 1
<1>1. l.lease \in Nat /\ l.lease <= SecsCap /\ 2 * l.lease < Wrap /\ l.lease >= 1
  BY DEF ShortLeases
<1>2. AtLeast1(secs_to_ticks(l.lease)) = l.lease
  BY <1>1 DEF ShortLeases, AtLeast1, secs_to_ticks, MinOf, MaxOf
<1> DEFINE c2 == AtLeast1(MinOf(r2, l.lease))
           c1 == AtLeast1(MinOf(r1, c2))
<1>3. c2 \in 1 .. l.lease
  BY <1>1 DEF AtLeast1, MinOf, MaxOf
<1>4. c1 \in 1 .. c2
  <2> HIDE DEF c2
  <2>1. QED BY <1>3 DEF AtLeast1, MinOf, MaxOf
<1>5. Clamped(r1, r2, l.lease) = [t1 |-> c1, t2 |-> c2, expire |-> l.lease]
  BY Zenon DEF Clamped
<1> HIDE DEF c1, c2
<1>6. QED
  BY <1>1, <1>2, <1>3, <1>4, <1>5 DEF ShortLeases

LEMMA OfferKeeps == ASSUME ShortLeases, LeaseInv, dhcp_offer PROVE LeaseInv'
<1> USE DEF LeaseInv, LeaseTypeOK
<1>1. IsState(dhcp)'
  BY Zenon DEF dhcp_offer, IsState
<1>2. QED
  BY <1>1, Zenon DEF ShortLeases, dhcp_offer, IsState, LeaseTracked, NoLease, DeadlinesOrdered, Extends, FirstWait

LEMMA RestartedOK ==
  ASSUME ShortLeases, LeaseInv, dhcp' = Restarted(dhcp), left' = Forever
  PROVE  LeaseInv'
<1>1. IsState(dhcp)'
  BY Zenon DEF LeaseInv, LeaseTypeOK, Restarted, IsState
<1>2. /\ dhcp'.state = "WAIT_OFFER" /\ dhcp'.ip = "none"
      /\ dhcp'.retries = 0 /\ dhcp'.wait = 2 /\ dhcp'.last = 0
      /\ dhcp'.t1 = dhcp.t1 /\ dhcp'.t2 = dhcp.t2 /\ dhcp'.expire = dhcp.expire
  BY Zenon DEF Restarted, LeaseInv, LeaseTypeOK, IsState, FirstWait
<1>3. QED
  BY <1>1, <1>2 DEF LeaseTypeOK, Forever, LeaseInv, LeaseTracked, NoLease, DeadlinesOrdered, Extends

LEMMA AckKeeps ==
  ASSUME ShortLeases, LeaseInv, NEW l \in Leases, dhcp_ack(l)
  PROVE  LeaseInv'
<1>1. CASE l.lease = 0
  <2>1. dhcp_arm_lease([dhcp EXCEPT !.ip = "leased"], l) = [dhcp EXCEPT !.ip = "leased", !.timed = FALSE]
    BY <1>1, Zenon DEF dhcp_arm_lease
  <2>2. dhcp' = [dhcp EXCEPT !.ip = "leased", !.timed = FALSE, !.state = "DONE"] /\ left' = Forever
    BY <1>1, <2>1, Zenon DEF dhcp_ack, LeaseInv, LeaseTypeOK, IsState
  <2>3. IsState(dhcp)'
    BY <2>2, Zenon DEF LeaseInv, LeaseTypeOK, IsState
  <2>4. /\ dhcp'.state = "DONE" /\ dhcp'.ip = "leased"
        /\ dhcp'.retries = dhcp.retries /\ dhcp'.wait = dhcp.wait /\ dhcp'.last = dhcp.last
        /\ dhcp'.t1 = dhcp.t1 /\ dhcp'.t2 = dhcp.t2 /\ dhcp'.expire = dhcp.expire
    BY <2>2, Zenon DEF LeaseInv, LeaseTypeOK, IsState
  <2>5. QED
    BY <2>2, <2>3, <2>4 DEF LeaseInv, LeaseTypeOK, Forever, LeaseTracked, NoLease, DeadlinesOrdered, Extends
<1>2. CASE l.lease # 0
  <2> DEFINE lt == AtLeast1(secs_to_ticks(l.lease))
             r1 == IF l.t1 # 0 THEN secs_to_ticks(l.t1) ELSE lt \div 2
             r2 == IF l.t2 # 0 THEN secs_to_ticks(l.t2) ELSE lt - (lt \div 8)
             due == Clamped(r1, r2, lt)
  <2>1. l.lease \in Nat /\ l.t1 \in Nat /\ l.t2 \in Nat /\ 2 * l.lease < Wrap
    BY Zenon DEF ShortLeases
  <2>2. r1 \in Nat /\ r2 \in Nat
    BY <2>1 DEF ShortLeases, secs_to_ticks, AtLeast1, MinOf, MaxOf
  <2>3. /\ due.t1 \in 1 .. due.t2 /\ due.t2 \in 1 .. due.expire
        /\ due.expire = l.lease /\ due.expire \in 1 .. Wrap - 1
    <3> HIDE DEF r1, r2
    <3>1. QED BY <1>2, <2>2, ArmedInRange, Zenon
  <2>4. dhcp' = [dhcp EXCEPT !.ip = "leased", !.timed = TRUE, !.t1 = due.t1, !.t2 = due.t2,
                             !.expire = due.expire, !.state = "BOUND"]
    <3> HIDE DEF due
    <3>1. dhcp_arm_lease([dhcp EXCEPT !.ip = "leased"], l)
            = [dhcp EXCEPT !.ip = "leased", !.timed = TRUE, !.t1 = due.t1, !.t2 = due.t2,
                           !.expire = due.expire]
      BY <1>2, Zenon DEF dhcp_arm_lease, due, LeaseInv, LeaseTypeOK, IsState
    <3>2. QED BY <3>1, Zenon DEF dhcp_ack, LeaseInv, LeaseTypeOK, IsState
  <2>5. left' = l.lease
    BY <1>2, Zenon DEF dhcp_ack
  <2> HIDE DEF due
  <2>6. due.t1 \in 0 .. Wrap - 1 /\ due.t2 \in 0 .. Wrap - 1 /\ due.expire \in 0 .. Wrap - 1
    BY <2>3 DEF ShortLeases
  <2>7. IsState(dhcp)'
    BY <2>4, Zenon DEF LeaseInv, LeaseTypeOK, IsState
  <2>8. /\ dhcp'.state = "BOUND" /\ dhcp'.ip = "leased" /\ dhcp'.timed
        /\ dhcp'.retries = dhcp.retries /\ dhcp'.wait = dhcp.wait /\ dhcp'.last = dhcp.last
        /\ dhcp'.t1 = due.t1 /\ dhcp'.t2 = due.t2 /\ dhcp'.expire = due.expire
    BY <2>4, Zenon DEF LeaseInv, LeaseTypeOK, IsState
  <2>9. QED
    BY <2>1, <2>3, <2>5, <2>6, <2>7, <2>8
       DEF LeaseInv, LeaseTypeOK, LeaseTracked, NoLease, DeadlinesOrdered, Extends
<1>3. QED BY <1>1, <1>2, Zenon

\* A second later every running deadline is one nearer, and none has wrapped.
LEMMA LaterOK ==
  ASSUME ShortLeases, LeaseInv, NEW s, s = Later(dhcp)
  PROVE  /\ IsState(s)
         /\ s.state = dhcp.state /\ s.ip = dhcp.ip /\ s.timed = dhcp.timed
         /\ s.retries = dhcp.retries /\ s.wait = dhcp.wait /\ s.last \in Nat
         /\ s.t1 \in 0 .. Wrap - 1 /\ s.t2 \in 0 .. Wrap - 1 /\ s.expire \in 0 .. Wrap - 1
         /\ dhcp.timed /\ dhcp.expire >= 1 => s.expire = dhcp.expire - 1
         /\ dhcp.timed /\ dhcp.t1 >= 1 => s.t1 = dhcp.t1 - 1
         /\ dhcp.timed /\ dhcp.t2 >= 1 => s.t2 = dhcp.t2 - 1
<1> DEFINE N1(d) == IF dhcp.timed THEN (d - 1) % Wrap ELSE 0
<1>1. Wrap \in Nat \ {0}
  BY Zenon DEF ShortLeases
<1>2. \A d \in 0 .. Wrap - 1 : N1(d) \in 0 .. Wrap - 1
  BY <1>1, ModRange
<1>3. \A d \in 0 .. Wrap - 1 : dhcp.timed /\ d >= 1 => N1(d) = d - 1
  BY <1>1, ModBelow
<1>4. s = [dhcp EXCEPT !.last = MinOf(@ + 1, WaitCap), !.t1 = N1(@), !.t2 = N1(@), !.expire = N1(@)]
  BY Zenon DEF Later
<1> HIDE DEF N1
<1>5. dhcp.t1 \in 0 .. Wrap - 1 /\ dhcp.t2 \in 0 .. Wrap - 1 /\ dhcp.expire \in 0 .. Wrap - 1
  BY Zenon DEF LeaseInv, LeaseTypeOK
<1>6. MinOf(dhcp.last + 1, WaitCap) \in Nat
  BY DEF MinOf, WaitCap, LeaseInv, LeaseTypeOK
<1>7. /\ s.state = dhcp.state /\ s.ip = dhcp.ip /\ s.timed = dhcp.timed
      /\ s.retries = dhcp.retries /\ s.wait = dhcp.wait /\ s.last = MinOf(dhcp.last + 1, WaitCap)
      /\ s.t1 = N1(dhcp.t1) /\ s.t2 = N1(dhcp.t2) /\ s.expire = N1(dhcp.expire)
  BY <1>4, Zenon DEF LeaseInv, LeaseTypeOK, IsState
<1>8. IsState(s)
  BY <1>4, Zenon DEF LeaseInv, LeaseTypeOK, IsState
<1>9. QED
  BY <1>2, <1>3, <1>5, <1>6, <1>7, <1>8, Zenon

LEMMA RestartedShape ==
  ASSUME NEW s, IsState(s), NEW u, u = Restarted(s)
  PROVE  /\ IsState(u) /\ u.state = "WAIT_OFFER" /\ u.ip = "none" /\ u.retries = 0 /\ u.wait = 2
         /\ u.last = 0 /\ u.t1 = s.t1 /\ u.t2 = s.t2 /\ u.expire = s.expire
<1>1. IsState(u)
  BY Zenon DEF Restarted, IsState
<1>2. QED
  BY <1>1, Zenon DEF Restarted, IsState, FirstWait

LEMMA ExtendingShape ==
  ASSUME NEW s, IsState(s), NEW x, NEW u, u = Extending(s, x)
  PROVE  /\ IsState(u) /\ u.state = x /\ u.ip = s.ip /\ u.timed = s.timed
         /\ u.retries = 0 /\ u.wait = 2 /\ u.last = 0
         /\ u.t1 = s.t1 /\ u.t2 = s.t2 /\ u.expire = s.expire
<1>1. IsState(u)
  BY Zenon DEF Extending, IsState
<1>2. QED
  BY <1>1, Zenon DEF Extending, IsState, FirstWait

LEMMA RetriedShape ==
  ASSUME NEW s, IsState(s), s.wait \in Nat, s.last \in Nat, NEW u, u = Retried(s)
  PROVE  /\ IsState(u) /\ u.state = s.state /\ u.ip = s.ip /\ u.timed = s.timed
         /\ u.retries = s.retries /\ u.wait \in Nat /\ u.last \in Nat
         /\ u.t1 = s.t1 /\ u.t2 = s.t2 /\ u.expire = s.expire
<1>1. CASE ~ Elapsed(s)
  BY <1>1, Zenon DEF Retried
<1>2. CASE Elapsed(s)
  <2>1. u = [s EXCEPT !.wait = dhcp_backoff_next(@), !.last = 0]
    BY <1>2, Zenon DEF Retried
  <2>2. IsState(u)
    BY <2>1, Zenon DEF IsState
  <2>3. dhcp_backoff_next(s.wait) \in Nat
    BY DEF dhcp_backoff_next, MinOf, WaitCap
  <2>4. QED
    BY <2>1, <2>2, <2>3 DEF IsState
<1>3. QED BY <1>1, <1>2, Zenon

LEMMA TickKeeps ==
  ASSUME ShortLeases, LeaseInv, dhcp_tick
  PROVE  LeaseInv' /\ (dhcp.ip = "leased" /\ dhcp'.ip # "leased" => left = 1)
<1> DEFINE s == Later(dhcp)
<1>1. /\ IsState(s) /\ s.state = dhcp.state /\ s.ip = dhcp.ip /\ s.timed = dhcp.timed
      /\ s.retries = dhcp.retries /\ s.wait = dhcp.wait /\ s.last \in Nat
      /\ s.t1 \in 0 .. Wrap - 1 /\ s.t2 \in 0 .. Wrap - 1 /\ s.expire \in 0 .. Wrap - 1
      /\ dhcp.timed /\ dhcp.expire >= 1 => s.expire = dhcp.expire - 1
      /\ dhcp.timed /\ dhcp.t1 >= 1 => s.t1 = dhcp.t1 - 1
      /\ dhcp.timed /\ dhcp.t2 >= 1 => s.t2 = dhcp.t2 - 1
  BY LaterOK, Zenon
<1>2. dhcp' = Acquired(Extended(s))
  BY Zenon DEF dhcp_tick
<1>3. Wrap \in Nat \ {0}
  BY Zenon DEF ShortLeases
<1> HIDE DEF s
<1>4. CASE dhcp.state \in Extends /\ left = 1
  <2>1. s.expire = 0
    BY <1>1, <1>4 DEF LeaseInv, LeaseTracked
  <2>2. Extended(s) = Restarted(s)
    BY <1>1, <1>4, <2>1, Zenon DEF Extended, Due, Extends
  <2> DEFINE u == Restarted(s)
  <2>3. IsState(u)
    BY <1>1, RestartedShape, Zenon
  <2>4. /\ u.state = "WAIT_OFFER" /\ u.ip = "none" /\ u.retries = 0 /\ u.wait = 2 /\ u.last = 0
        /\ u.t1 = s.t1 /\ u.t2 = s.t2 /\ u.expire = s.expire
    BY <1>1, RestartedShape
  <2> HIDE DEF u
  <2>5. dhcp' = u
    BY <1>2, <2>2, <2>4 DEF Acquired, Elapsed, u
  <2>6. left' = Forever
    BY <2>4, <2>5, Zenon DEF dhcp_tick
  <2>7. QED
    BY <1>1, <1>4, <2>3, <2>4, <2>5, <2>6
       DEF LeaseInv, LeaseTypeOK, LeaseTracked, NoLease, DeadlinesOrdered, Extends, Forever
<1>5. CASE dhcp.state \in Extends /\ left # 1
  <2>1. left > 1 /\ s.expire = left - 1 /\ 2 * left < Wrap /\ dhcp.ip = "leased" /\ dhcp.timed
    BY <1>1, <1>5 DEF LeaseInv, LeaseTypeOK, LeaseTracked
  <2>2. ~ Due(s.expire)
    BY <1>3, <2>1 DEF Due, LeaseInv, LeaseTypeOK
  <2>3. Extended(s) = Phase(s)
    BY <1>1, <1>5, <2>2, Zenon DEF Extended, Extends
  <2> DEFINE u == Phase(s)
  <2>4. /\ IsState(u) /\ u.state \in Extends /\ u.ip = "leased" /\ u.timed = dhcp.timed
        /\ u.t1 = s.t1 /\ u.t2 = s.t2 /\ u.expire = s.expire
        /\ u.retries \in Nat /\ u.wait \in Nat /\ u.last \in Nat
        /\ u.state = "BOUND" => dhcp.state = "BOUND" /\ ~ Due(s.t1)
    <3>1. s.retries \in Nat /\ s.wait \in Nat /\ s.last \in Nat /\ s.ip = "leased"
      BY <1>1, <2>1, Zenon DEF LeaseInv, LeaseTypeOK
    <3>2. CASE s.state = "BOUND" /\ Due(s.t1)
      <4>1. u = Extending(s, "RENEWING")
        BY <3>2, Zenon DEF Phase
      <4> HIDE DEF u
      <4>2. QED BY <1>1, <3>1, <4>1, ExtendingShape DEF Extends
    <3>3. CASE s.state = "BOUND" /\ ~ Due(s.t1)
      <4>1. u = s
        BY <3>3, Zenon DEF Phase
      <4> HIDE DEF u
      <4>2. QED BY <1>1, <3>1, <3>3, <4>1, Zenon DEF Extends
    <3>4. CASE s.state = "RENEWING" /\ Due(s.t2)
      <4>1. u = Extending(s, "REBINDING")
        BY <3>4, Zenon DEF Phase
      <4> HIDE DEF u
      <4>2. QED BY <1>1, <3>1, <4>1, ExtendingShape DEF Extends
    <3>5. CASE (s.state = "RENEWING" /\ ~ Due(s.t2)) \/ s.state = "REBINDING"
      <4>1. u = Retried(s)
        BY <3>5, Zenon DEF Phase
      <4> HIDE DEF u
      <4>2. QED BY <1>1, <3>1, <3>5, <4>1, RetriedShape DEF Extends
    <3>6. QED BY <1>1, <1>5, <3>2, <3>3, <3>4, <3>5, Zenon DEF Extends
  <2> HIDE DEF u
  <2>5. dhcp' = u
    BY <1>2, <2>3, <2>4, Zenon DEF Acquired, Extends, u
  <2>6. left' = left - 1
    BY <2>1, <2>4, <2>5 DEF dhcp_tick, Forever, MaxOf, LeaseInv, LeaseTypeOK
  <2>7. LeaseTypeOK' /\ LeaseTracked' /\ NoLease'
    <3>1. left' \in Int /\ left' >= 1 /\ 2 * left' < Wrap /\ s.expire = left'
      BY <1>3, <2>1, <2>6 DEF LeaseInv, LeaseTypeOK
    <3>2. LeaseTypeOK'
      BY <1>1, <2>4, <2>5, <3>1, Zenon DEF LeaseTypeOK, Extends
    <3>3. QED
      BY <2>1, <2>4, <2>5, <3>1, <3>2, Zenon DEF LeaseTracked, NoLease, Extends
  <2>8. ASSUME dhcp'.state = "BOUND" PROVE dhcp'.t1 >= 1 /\ dhcp'.t1 <= dhcp'.t2 /\ dhcp'.t2 <= dhcp'.expire
    <3>1. dhcp.state = "BOUND" /\ ~ Due(s.t1)
      BY <2>4, <2>5, <2>8, Zenon
    <3>2. dhcp.t1 >= 1 /\ dhcp.t1 <= dhcp.t2 /\ dhcp.t2 <= dhcp.expire
      BY <3>1, Zenon DEF LeaseInv, DeadlinesOrdered
    <3>3. QED
      BY <1>1, <1>3, <2>1, <2>4, <2>5, <3>1, <3>2 DEF LeaseInv, LeaseTypeOK, LeaseTracked, Extends, Due
  <2>9. QED
    BY <2>4, <2>5, <2>7, <2>8, Zenon DEF LeaseInv, DeadlinesOrdered
<1>6. CASE dhcp.state \notin Extends
  <2>1. Extended(s) = s
    BY <1>1, <1>6, Zenon DEF Extended, Extends
  <2>2. CASE ~ (s.state \in {"WAIT_OFFER", "WAIT_ACK"} /\ Elapsed(s))
    <3>1. dhcp' = s
      BY <1>2, <2>1, <2>2, Zenon DEF Acquired
    <3>2. dhcp.ip = "leased" => left = Forever /\ dhcp.state = "DONE"
      BY <1>6, Zenon DEF LeaseInv, LeaseTypeOK, NoLease, Extends
    <3>3. left' = Forever
      BY <1>1, <3>1, <3>2, Zenon DEF dhcp_tick
    <3>4. QED
      BY <1>1, <1>6, <3>1, <3>3
         DEF LeaseInv, LeaseTypeOK, LeaseTracked, NoLease, DeadlinesOrdered, Extends, Forever
  <2>3. CASE s.state \in {"WAIT_OFFER", "WAIT_ACK"} /\ Elapsed(s)
    <3>1. dhcp.ip = "none"
      BY <1>1, <2>3, Zenon DEF LeaseInv, NoLease
    <3>2. CASE s.retries >= MaxRetries
      <4>1. dhcp' = [s EXCEPT !.ip = "static", !.wait = 0, !.state = "DONE", !.timed = FALSE,
                              !.retries = @ + 1]
        BY <1>2, <2>1, <2>3, <3>2, Zenon DEF Acquired
      <4>2. IsState(dhcp)'
        BY <1>1, <4>1, Zenon DEF IsState
      <4>3. /\ dhcp'.state = "DONE" /\ dhcp'.ip = "static" /\ dhcp'.retries = s.retries + 1
            /\ dhcp'.wait = 0 /\ dhcp'.last = s.last
            /\ dhcp'.t1 = s.t1 /\ dhcp'.t2 = s.t2 /\ dhcp'.expire = s.expire
        BY <1>1, <4>1, Zenon DEF IsState
      <4>4. left' = Forever
        BY <4>3, Zenon DEF dhcp_tick
      <4>5. QED
        BY <1>1, <3>1, <4>2, <4>3, <4>4
           DEF LeaseInv, LeaseTypeOK, LeaseTracked, NoLease, DeadlinesOrdered, Extends, Forever
    <3>3. CASE ~ (s.retries >= MaxRetries)
      <4>1. dhcp' = [s EXCEPT !.state = "WAIT_OFFER", !.wait = FirstWait, !.last = 0, !.retries = @ + 1]
        BY <1>2, <2>1, <2>3, <3>3, Zenon DEF Acquired
      <4>2. IsState(dhcp)'
        BY <1>1, <4>1, Zenon DEF IsState
      <4>3. /\ dhcp'.state = "WAIT_OFFER" /\ dhcp'.ip = "none" /\ dhcp'.retries = s.retries + 1
            /\ dhcp'.wait = 2 /\ dhcp'.last = 0
            /\ dhcp'.t1 = s.t1 /\ dhcp'.t2 = s.t2 /\ dhcp'.expire = s.expire
        BY <1>1, <3>1, <4>1, Zenon DEF IsState, FirstWait
      <4>4. left' = Forever
        BY <4>3, Zenon DEF dhcp_tick
      <4>5. QED
        BY <1>1, <3>1, <4>2, <4>3, <4>4
           DEF LeaseInv, LeaseTypeOK, LeaseTracked, NoLease, DeadlinesOrdered, Extends, Forever
    <3>4. QED BY <3>2, <3>3, Zenon
  <2>4. QED BY <2>2, <2>3, Zenon
<1>7. QED BY <1>4, <1>5, <1>6, Zenon

LEMMA StepKeeps == ASSUME ShortLeases, LeaseInv, [Next]_vars PROVE LeaseInv'
<1>1. CASE dhcp_nak
  BY <1>1, RestartedOK, Zenon DEF dhcp_nak
<1>2. CASE UNCHANGED vars
  BY <1>2, Zenon DEF vars, LeaseInv, LeaseTypeOK, LeaseTracked, NoLease, DeadlinesOrdered, IsState
<1>3. QED
  BY <1>1, <1>2, OfferKeeps, AckKeeps, TickKeeps, Zenon DEF Next

LEMMA Lease == ASSUME ShortLeases PROVE Spec => []LeaseInv
<1>1. Init => LeaseInv
  BY InitOK, Zenon
<1>2. LeaseInv /\ [Next]_vars => LeaseInv'
  BY StepKeeps, Zenon
<1>3. QED
  BY <1>1, <1>2, PTL DEF Spec

\* No leased address is used past its lease, whatever states and messages the
\* client goes through: expire follows what is left of the grant, and
\* dhcp_tick() gives the address up in the tick in which nothing is left.
THEOREM LeaseNeverOverrun == ASSUME ShortLeases PROVE Spec => []NotPastLease
<1>1. LeaseInv => NotPastLease
  BY DEF LeaseInv, LeaseTypeOK, LeaseTracked, NoLease, NotPastLease, Extends, Forever
<1>2. QED
  BY <1>1, Lease, PTL

\* T1, T2 and the expiry stay in this order, whatever T1 and T2 a server sends
\* (the clamps of dhcp_arm_lease()).
THEOREM DeadlinesStayOrdered == ASSUME ShortLeases PROVE Spec => []DeadlinesOrdered
<1>1. LeaseInv => DeadlinesOrdered
  BY Zenon DEF LeaseInv
<1>2. QED
  BY <1>1, Lease, PTL

\* dhcp_tick() takes a leased address away in the last tick of its lease and in
\* no other.
THEOREM LeaseKeptToItsEnd == ASSUME ShortLeases PROVE Spec => LeaseHonoured
<1>1. LeaseInv /\ [Next]_vars =>
        [dhcp_tick /\ dhcp.ip = "leased" /\ dhcp'.ip # "leased" => left = 1]_vars
  BY TickKeeps, Zenon
<1>2. QED
  BY <1>1, Lease, PTL DEF Spec, LeaseHonoured

-----------------------------------------------------------------------------
\* The neighbour table.

LEMMA LeastNumber ==
  ASSUME NEW T, T \subseteq Nat, T # {}
  PROVE  \E m \in T : \A k \in T : m <= k
<1>1. PICK m \in T : \A y \in T : ~(<<y, m>> \in OpToRel(<, Nat))
  BY NatLessThanWellFounded, WFMin, Zenon
<1>2. ASSUME NEW k \in T, k < m PROVE <<k, m>> \in OpToRel(<, Nat)
  BY <1>2 DEF OpToRel
<1>3. \A k \in T : ~(k < m)
  BY <1>1, <1>2, Zenon
<1>4. \A k \in T : m <= k
  BY <1>3
<1> QED BY <1>4, Zenon

-----------------------------------------------------------------------------
(* The table of arp_tick().                                                *)

Neighbour == [ip : Ips, mac : Macs, seen : Nat, req : Nat, probes : Nat]

\* What arp_tick() leaves of the table c.
LeftOf(c, t) ==
  /\ t \in Seq(Neighbour)
  /\ \A j \in 1 .. Len(t) : \E i \in 1 .. Len(c) : t[j] = c[i]
  /\ \A j, l \in 1 .. Len(t) : t[j].ip = t[l].ip => j = l
  /\ \A i \in 1 .. Len(c) : ~Neigh!Dead(c[i]) => \E j \in 1 .. Len(t) : t[j] = c[i]

LEMMA DelLeft ==
  ASSUME NEW c, NEW t, LeftOf(c, t), NEW n \in 1 .. Len(t), Neigh!Dead(t[n])
  PROVE  LeftOf(c, Neigh!arp_cache_del(t, n)) /\ Len(Neigh!arp_cache_del(t, n)) = Len(t) - 1
<1> DEFINE u == Neigh!arp_cache_del(t, n)
           m == Len(t) - 1
<1>1. t \in Seq(Neighbour) /\ Len(t) \in Nat /\ n \in Nat /\ 1 <= n /\ n <= Len(t) /\ m \in Nat
  BY DEF LeftOf
<1>2. u = [i \in 1 .. m |-> IF i < n THEN t[i] ELSE t[i + 1]]
  BY Zenon DEF Neigh!arp_cache_del
<1> HIDE DEF u
<1>3. \A i \in 1 .. m : i \in 1 .. Len(t) /\ i + 1 \in 1 .. Len(t)
  BY <1>1
<1>4. u \in Seq(Neighbour) /\ Len(u) = m
  BY <1>1, <1>2, <1>3
<1>5. \A i \in 1 .. m : u[i] = IF i < n THEN t[i] ELSE t[i + 1]
  BY <1>2, Zenon
<1>6. \A j \in 1 .. Len(u) : \E i \in 1 .. Len(c) : u[j] = c[i]
  <2> SUFFICES ASSUME NEW j \in 1 .. m PROVE \E i \in 1 .. Len(c) : u[j] = c[i]
    BY <1>4, Zenon
  <2>1. j \in 1 .. Len(t) /\ j + 1 \in 1 .. Len(t)
    BY <1>3, Zenon
  <2>2. u[j] = IF j < n THEN t[j] ELSE t[j + 1]
    BY <1>5, Zenon
  <2>3. u[j] = t[j] \/ u[j] = t[j + 1]
    BY <2>2, Zenon
  <2>4. \A a \in 1 .. Len(t) : \E i \in 1 .. Len(c) : t[a] = c[i]
    BY Zenon DEF LeftOf
  <2> QED BY <2>1, <2>3, <2>4, Zenon
<1>7. ASSUME NEW j \in 1 .. Len(u), NEW l \in 1 .. Len(u), u[j].ip = u[l].ip PROVE j = l
  <2> DEFINE a == IF j < n THEN j ELSE j + 1
             b == IF l < n THEN l ELSE l + 1
  <2>1. a \in 1 .. Len(t) /\ b \in 1 .. Len(t) /\ (a = b => j = l)
    BY <1>1, <1>4
  <2>2. u[j] = t[a] /\ u[l] = t[b]
    BY <1>4, <1>5, Zenon
  <2> HIDE DEF a, b
  <2>3. a = b
    BY <1>7, <2>1, <2>2, Zenon DEF LeftOf
  <2> QED BY <2>1, <2>3, Zenon
<1>8. ASSUME NEW i \in 1 .. Len(c), ~Neigh!Dead(c[i]) PROVE \E j \in 1 .. Len(u) : u[j] = c[i]
  <2>1. PICK j \in 1 .. Len(t) : t[j] = c[i]
    BY <1>8, Zenon DEF LeftOf
  <2>2. j # n
    BY <1>8, <2>1, Zenon
  <2>3. CASE j < n
    <3>1. j \in 1 .. m
      BY <1>1, <2>3
    <3> QED BY <1>4, <1>5, <2>1, <2>3, <3>1, Zenon
  <2>4. CASE ~(j < n)
    <3>1. j - 1 \in 1 .. m /\ ~(j - 1 < n) /\ (j - 1) + 1 = j
      BY <1>1, <2>2, <2>4
    <3>2. u[j - 1] = t[j]
      BY <1>5, <3>1, Zenon
    <3> QED BY <1>4, <2>1, <3>1, <3>2, Zenon
  <2> QED BY <2>3, <2>4, Zenon
<1>9. LeftOf(c, u)
  BY <1>4, <1>6, <1>7, <1>8, Zenon DEF LeftOf
<1> QED BY <1>4, <1>9, Zenon DEF u

\* The loop of arp_tick() as a function of the number of turns.
SweepOne(c, t, k) ==
  LET i == Len(c) - (k - 1) IN IF Neigh!Dead(t[i]) THEN Neigh!arp_cache_del(t, i) ELSE t
IsSweep(c, n, f) == f = [k \in 0 .. n |-> IF k = 0 THEN c ELSE SweepOne(c, f[k - 1], k)]

LEMMA SweepExists ==
  ASSUME NEW c, NEW n \in Nat
  PROVE  \E f : IsSweep(c, n, f)
<1> DEFINE T == {m \in Nat : ~ \E f : IsSweep(c, m, f)}
<1>1. SUFFICES ASSUME T # {} PROVE FALSE
  BY Zenon
<1>2. PICK m \in T : \A k \in T : m <= k
  BY <1>1, LeastNumber, Zenon
<1>3. m \in Nat /\ ~ \E f : IsSweep(c, m, f)
  BY Zenon
<1> HIDE DEF T
<1>4. m # 0
  <2> DEFINE g == [k \in 0 .. 0 |-> c]
  <2>1. g = [k \in 0 .. 0 |-> IF k = 0 THEN c ELSE SweepOne(c, g[k - 1], k)]
    OBVIOUS
  <2> HIDE DEF g
  <2>2. IsSweep(c, 0, g)
    BY <2>1, Zenon DEF IsSweep
  <2> QED BY <1>3, <2>2, Zenon
<1>5. PICK f : IsSweep(c, m - 1, f)
  <2>1. m - 1 \in Nat /\ ~(m <= m - 1)
    BY <1>3, <1>4
  <2> QED BY <1>2, <2>1, Zenon DEF T
<1>6. \A k \in 0 .. m - 1 : f[k] = IF k = 0 THEN c ELSE SweepOne(c, f[k - 1], k)
  BY <1>5, Zenon DEF IsSweep
<1> DEFINE g == [k \in 0 .. m |-> IF k = m THEN SweepOne(c, f[m - 1], m) ELSE f[k]]
<1>7. \A k \in 0 .. m : g[k] = IF k = 0 THEN c ELSE SweepOne(c, g[k - 1], k)
  <2> SUFFICES ASSUME NEW k \in 0 .. m
               PROVE  g[k] = IF k = 0 THEN c ELSE SweepOne(c, g[k - 1], k)
    BY Zenon
  <2>1. CASE k = m
    <3>1. k # 0 /\ m - 1 \in 0 .. m /\ m - 1 # m
      BY <1>3, <1>4, <2>1
    <3> QED BY <2>1, <3>1, Zenon
  <2>2. CASE k # m
    <3>1. k \in 0 .. m - 1 /\ (k # 0 => k - 1 \in 0 .. m /\ k - 1 # m)
      BY <1>3, <2>2
    <3> QED BY <1>6, <2>2, <3>1, Zenon
  <2> QED BY <2>1, <2>2, Zenon
<1>8. g = [k \in 0 .. m |-> g[k]]
  BY Zenon
<1> HIDE DEF g
<1>9. IsSweep(c, m, g)
  BY <1>7, <1>8, Zenon DEF IsSweep
<1> QED BY <1>3, <1>9, Zenon

LEMMA SweepLeft ==
  ASSUME NEW c \in Seq(Neighbour), LeftOf(c, c), NEW f, IsSweep(c, Len(c), f)
  PROVE  LeftOf(c, f[Len(c)])
<1> DEFINE n == Len(c)
           Fine(k) == LeftOf(c, f[k]) /\ n - k <= Len(f[k])
           T == {k \in 0 .. n : ~Fine(k)}
<1>0. n \in Nat /\ \A k \in 0 .. n : f[k] = IF k = 0 THEN c ELSE SweepOne(c, f[k - 1], k)
  <2>1. n \in Nat
    OBVIOUS
  <2> QED BY <2>1, Zenon DEF IsSweep
<1>1. ASSUME T # {} PROVE FALSE
  <2>1. T \subseteq Nat
    OBVIOUS
  <2>2. PICK m \in T : \A k \in T : m <= k
    BY <1>1, <2>1, LeastNumber, Zenon
  <2>3. m \in 0 .. n /\ ~Fine(m)
    BY Zenon
  <2>4. CASE m = 0
    <3>1. f[m] = c /\ n - m = n /\ n <= n
      BY <1>0, <2>3, <2>4
    <3> QED BY <2>3, <3>1, Zenon
  <2>5. CASE m # 0
    <3>1. m - 1 \in 0 .. n /\ ~(m <= m - 1)
      BY <2>3, <2>5
    <3>2. Fine(m - 1)
      BY <2>2, <3>1, Zenon
    <3> DEFINE t == f[m - 1]
               i == n - (m - 1)
    <3>3. LeftOf(c, t) /\ i <= Len(t) /\ t \in Seq(Neighbour)
      BY <3>2, Zenon DEF LeftOf
    <3>4. f[m] = IF Neigh!Dead(t[i]) THEN Neigh!arp_cache_del(t, i) ELSE t
      BY <1>0, <2>3, <2>5, Zenon DEF SweepOne
    <3> HIDE DEF t
    <3>5. Len(t) \in Nat /\ i \in 1 .. Len(t) /\ n - m <= Len(t) /\ n - m <= Len(t) - 1
      BY <1>0, <2>3, <2>5, <3>3
    <3> HIDE DEF i
    <3> QED BY <2>3, <3>3, <3>4, <3>5, DelLeft, Zenon
  <2> QED BY <2>4, <2>5, Zenon
<1>2. n \in 0 .. n
  BY <1>0
<1> QED BY <1>1, <1>2, Zenon

LEMMA SweptLeft ==
  ASSUME NEW c \in Seq(Neighbour), LeftOf(c, c)
  PROVE  LeftOf(c, Neigh!Swept(c))
<1> DEFINE f == CHOOSE g : IsSweep(c, Len(c), g)
<1>1. IsSweep(c, Len(c), f)
  <2>1. Len(c) \in Nat
    OBVIOUS
  <2>2. \E g : IsSweep(c, Len(c), g)
    BY <2>1, SweepExists, Zenon
  <2> QED BY <2>2, Zenon
<1>2. Neigh!Swept(c) = f[Len(c)]
  BY DEF Neigh!Swept, IsSweep, SweepOne
<1> HIDE DEF f
<1> QED BY <1>1, <1>2, SweepLeft, Zenon

-----------------------------------------------------------------------------
(* The cache.                                                              *)

\* The table c answers with what h says was heard, an address has one entry, and
\* an entry counts no more probes than a says were sent.
GoodTable(c, h, a) ==
  /\ c \in Seq(Neighbour)
  /\ \A i \in 1 .. Len(c) : c[i].mac = h[c[i].ip] /\ c[i].probes <= a[c[i].ip]
  /\ \A i, j \in 1 .. Len(c) : c[i].ip = c[j].ip => i = j

ArpInv ==
  /\ heard \in [Ips -> Macs] /\ asked \in [Ips -> 0 .. Neigh!ARP_PROBE_MAX]
  /\ GoodTable(cache, heard, asked)
  /\ \A i \in 1 .. Len(cache) : cache[i].seen <= Neigh!AgeCap

LEMMA ArpGood == ArpInv => AnswersHeard
<1> SUFFICES ASSUME ArpInv PROVE AnswersHeard
  BY Zenon
<1>1. DOMAIN cache = 1 .. Len(cache)
  BY DEF ArpInv, GoodTable
<1> QED BY <1>1, Zenon DEF ArpInv, GoodTable, AnswersHeard, Neigh!AnswersHeard

LEMMA CapType == Neigh!AgeCap \in Nat
  BY NeighboursAssumption DEF Neigh!AgeCap

LEMMA ArpInit == Neigh!Init => ArpInv
<1> SUFFICES ASSUME Neigh!Init PROVE ArpInv
  BY Zenon
<1>1. (CHOOSE mac \in Macs : TRUE) \in Macs
  BY NeighboursAssumption, Zenon
<1>2. heard \in [Ips -> Macs]
  BY <1>1, Zenon DEF Neigh!Init
<1>3. asked \in [Ips -> 0 .. Neigh!ARP_PROBE_MAX]
  BY DEF Neigh!Init, Neigh!ARP_PROBE_MAX
<1>4. cache \in Seq(Neighbour) /\ Len(cache) = 0
  BY DEF Neigh!Init
<1>5. 1 .. Len(cache) = {}
  BY <1>4
<1> QED BY <1>2, <1>3, <1>4, <1>5, Zenon DEF ArpInv, GoodTable

\* The entry at i is replaced by e, of a host that was just heard.
FreshFor(ip, mac, e) ==
  e \in Neighbour /\ e.ip = ip /\ e.mac = mac /\ e.probes = 0 /\ e.seen = 0

\* Nothing but the entry at i is for ip.
OnlyAt(c, i, ip) == \A j \in 1 .. Len(c) : c[j].ip = ip => j = i

LEMMA HeardTypes ==
  ASSUME ArpInv, NEW ip \in Ips, NEW mac \in Macs,
         heard' = [heard EXCEPT ![ip] = mac], asked' = [asked EXCEPT ![ip] = 0]
  PROVE  /\ heard' \in [Ips -> Macs] /\ asked' \in [Ips -> 0 .. Neigh!ARP_PROBE_MAX]
         /\ heard'[ip] = mac /\ asked'[ip] = 0
         /\ \A x \in Ips : x # ip => heard'[x] = heard[x] /\ asked'[x] = asked[x]
<1>1. heard \in [Ips -> Macs] /\ asked \in [Ips -> 0 .. Neigh!ARP_PROBE_MAX]
  BY Zenon DEF ArpInv
<1>2. 0 \in 0 .. Neigh!ARP_PROBE_MAX
  BY DEF Neigh!ARP_PROBE_MAX
<1> QED BY <1>1, <1>2, Zenon

\* d is c with e at i, or with e appended when i is the next place.
PlacedAt(c, i, e, d) ==
  /\ d \in Seq(Neighbour) /\ i \in 1 .. Len(d) /\ d[i] = e
  /\ \A j \in 1 .. Len(d) : j # i => j \in 1 .. Len(c) /\ d[j] = c[j]

LEMMA PlaceFresh ==
  ASSUME ArpInv, NEW ip \in Ips, NEW mac \in Macs,
         heard' = [heard EXCEPT ![ip] = mac], asked' = [asked EXCEPT ![ip] = 0],
         NEW i, NEW e, FreshFor(ip, mac, e), OnlyAt(cache, i, ip), PlacedAt(cache, i, e, cache')
  PROVE  ArpInv'
<1>1. /\ heard' \in [Ips -> Macs] /\ asked' \in [Ips -> 0 .. Neigh!ARP_PROBE_MAX]
      /\ heard'[ip] = mac /\ asked'[ip] = 0
      /\ \A x \in Ips : x # ip => heard'[x] = heard[x] /\ asked'[x] = asked[x]
  BY HeardTypes, Zenon
<1>2. /\ cache' \in Seq(Neighbour) /\ i \in 1 .. Len(cache') /\ cache'[i] = e
      /\ \A j \in 1 .. Len(cache') : j # i => j \in 1 .. Len(cache) /\ cache'[j] = cache[j]
  BY Zenon DEF PlacedAt
<1>3. e.ip = ip /\ e.mac = mac /\ e.probes = 0 /\ e.seen = 0
  BY Zenon DEF FreshFor
<1>4. GoodTable(cache, heard, asked) /\ \A j \in 1 .. Len(cache) : cache[j].seen <= Neigh!AgeCap
  BY Zenon DEF ArpInv
<1>5. \A j \in 1 .. Len(cache') : j # i => cache'[j].ip \in Ips /\ cache'[j].ip # ip
  <2> SUFFICES ASSUME NEW j \in 1 .. Len(cache'), j # i
               PROVE  cache'[j].ip \in Ips /\ cache'[j].ip # ip
    BY Zenon
  <2>1. j \in 1 .. Len(cache) /\ cache'[j] = cache[j]
    BY <1>2, Zenon
  <2>2. cache \in Seq(Neighbour)
    BY <1>4, Zenon DEF GoodTable
  <2>3. cache[j] \in Neighbour
    BY <2>1, <2>2
  <2>4. cache[j].ip \in Ips
    BY <2>3, Zenon DEF Neighbour
  <2> QED BY <2>1, <2>4, Zenon DEF OnlyAt
<1>6. ASSUME NEW j \in 1 .. Len(cache')
      PROVE  /\ cache'[j].mac = heard'[cache'[j].ip] /\ cache'[j].probes <= asked'[cache'[j].ip]
             /\ cache'[j].seen <= Neigh!AgeCap
  <2>1. CASE j = i
    <3>1. 0 <= 0 /\ 0 <= Neigh!AgeCap
      BY CapType
    <3> QED BY <1>1, <1>2, <1>3, <2>1, <3>1, Zenon
  <2>2. CASE j # i
    BY <1>1, <1>2, <1>4, <1>5, <2>2, Zenon DEF GoodTable
  <2> QED BY <2>1, <2>2, Zenon
<1>7. ASSUME NEW j \in 1 .. Len(cache'), NEW l \in 1 .. Len(cache'), cache'[j].ip = cache'[l].ip
      PROVE  j = l
  <2>1. CASE j # i /\ l # i
    BY <1>2, <1>4, <1>7, <2>1, Zenon DEF GoodTable
  <2>2. CASE j = i \/ l = i
    BY <1>2, <1>3, <1>5, <1>7, <2>2, Zenon
  <2> QED BY <2>1, <2>2, Zenon
<1>8. GoodTable(cache', heard', asked')
  BY <1>2, <1>6, <1>7, Zenon DEF GoodTable
<1> QED BY <1>1, <1>6, <1>8, Zenon DEF ArpInv, Neigh!ARP_PROBE_MAX, Neigh!AgeCap

LEMMA CacheType ==
  ASSUME ArpInv
  PROVE  /\ cache \in Seq(Neighbour) /\ Len(cache) \in Nat /\ DOMAIN cache = 1 .. Len(cache)
         /\ \A i \in 1 .. Len(cache) : cache[i] \in Neighbour
<1>1. cache \in Seq(Neighbour)
  BY Zenon DEF ArpInv, GoodTable
<1> QED BY <1>1

LEMMA FirstEntry ==
  ASSUME ArpInv, NEW S, S \subseteq DOMAIN cache, S # {}
  PROVE  Neigh!First(S) \in S
<1>1. S \subseteq Nat
  BY CacheType
<1> QED BY <1>1, LeastNumber, Zenon DEF Neigh!First

\* A full table has an entry to give up.
LEMMA VictimOf ==
  ASSUME ArpInv, ~(Len(cache) < ARP_CACHE_MAX)
  PROVE  Neigh!Victim \in 1 .. Len(cache)
<1> DEFINE stale == {i \in DOMAIN cache : Neigh!Stale(cache[i])}
           oldest == {i \in DOMAIN cache :
                        \A j \in DOMAIN cache : cache[j].seen <= cache[i].seen}
           S == IF stale # {} THEN stale ELSE oldest
<1>1. Neigh!Victim = Neigh!First(S)
  BY Zenon DEF Neigh!Victim
<1>2. DOMAIN cache = 1 .. Len(cache) /\ 1 \in DOMAIN cache
  BY CacheType, NeighboursAssumption
<1>3. ASSUME NEW i \in DOMAIN cache PROVE Neigh!AgeCap - cache[i].seen \in Nat
  <2>1. cache[i] \in Neighbour /\ cache[i].seen <= Neigh!AgeCap
    BY <1>2, CacheType, Zenon DEF ArpInv
  <2>2. cache[i].seen \in Nat
    BY <2>1, Zenon DEF Neighbour
  <2> QED BY <2>1, <2>2, CapType
<1>4. oldest # {}
  <2> DEFINE Ages == {Neigh!AgeCap - cache[i].seen : i \in DOMAIN cache}
  <2>1. Ages \subseteq Nat /\ Ages # {}
    BY <1>2, <1>3, Zenon
  <2>2. PICK m \in Ages : \A k \in Ages : m <= k
    BY <2>1, LeastNumber, Zenon
  <2>3. PICK i \in DOMAIN cache : m = Neigh!AgeCap - cache[i].seen
    BY Zenon
  <2>4. \A j \in DOMAIN cache : Neigh!AgeCap - cache[i].seen <= Neigh!AgeCap - cache[j].seen
    BY <2>2, <2>3, Zenon
  <2>5. \A j \in DOMAIN cache : cache[j].seen \in Nat
    BY <1>2, CacheType, Zenon DEF Neighbour
  <2>6. \A j \in DOMAIN cache : cache[j].seen <= cache[i].seen
    BY <2>4, <2>5, CapType
  <2> QED BY <2>6, Zenon
<1>5. S \subseteq DOMAIN cache /\ S # {}
  BY <1>4, Zenon
<1> HIDE DEF S
<1>6. Neigh!First(S) \in S
  BY <1>5, FirstEntry, Zenon
<1> QED BY <1>1, <1>2, <1>5, <1>6, Zenon

\* arp_cache_add() puts one fresh entry into the table.
LEMMA AddPlaced ==
  ASSUME ArpInv, NEW ip \in Ips, NEW mac \in Macs
  PROVE  \E i, e : /\ FreshFor(ip, mac, e) /\ OnlyAt(cache, i, ip)
                   /\ PlacedAt(cache, i, e, Neigh!arp_cache_add(ip, mac))
<1> DEFINE d == Neigh!arp_cache_add(ip, mac)
           f == Neigh!Fill(ip, mac)
<1>1. /\ cache \in Seq(Neighbour) /\ Len(cache) \in Nat /\ DOMAIN cache = 1 .. Len(cache)
      /\ \A j \in 1 .. Len(cache) : cache[j] \in Neighbour
  BY CacheType, Zenon
<1>2. FreshFor(ip, mac, f)
  BY DEF FreshFor, Neigh!Fill, Neighbour
<1>3. CASE Neigh!At(ip) # {}
  <2> DEFINE i == Neigh!arp_lookup(ip)
             e == Neigh!Confirmed(cache[i], mac)
  <2>1. i \in 1 .. Len(cache) /\ cache[i].ip = ip
    <3>1. Neigh!At(ip) \subseteq DOMAIN cache
      BY Zenon DEF Neigh!At
    <3>2. i \in Neigh!At(ip)
      BY <1>3, <3>1, FirstEntry, Zenon DEF Neigh!arp_lookup
    <3> QED BY <1>1, <3>2, Zenon DEF Neigh!At
  <2>2. d = [cache EXCEPT ![i] = e]
    BY <1>3, Zenon DEF Neigh!arp_cache_add
  <2> HIDE DEF i, d
  <2>3. cache[i] \in Neighbour
    BY <1>1, <2>1, Zenon
  <2>4. FreshFor(ip, mac, e)
    BY <2>1, <2>3, Zenon DEF FreshFor, Neigh!Confirmed, Neighbour
  <2> HIDE DEF e
  <2>5. OnlyAt(cache, i, ip)
    BY <2>1, Zenon DEF OnlyAt, ArpInv, GoodTable
  <2>6. e \in Neighbour
    BY <2>4, Zenon DEF FreshFor
  <2>7. PlacedAt(cache, i, e, d)
    BY <1>1, <2>1, <2>2, <2>6 DEF PlacedAt
  <2> QED BY <2>4, <2>5, <2>7, Zenon DEF d
<1>4. CASE Neigh!At(ip) = {}
  <2>1. \A j : OnlyAt(cache, j, ip)
    BY <1>1, <1>4, Zenon DEF OnlyAt, Neigh!At
  <2>2. f \in Neighbour
    BY <1>2, Zenon DEF FreshFor
  <2>3. CASE Len(cache) < ARP_CACHE_MAX
    <3>1. d = Append(cache, f)
      BY <1>4, <2>3, Zenon DEF Neigh!arp_cache_add
    <3> HIDE DEF d, f
    <3>2. PlacedAt(cache, Len(cache) + 1, f, d)
      BY <1>1, <2>2, <3>1 DEF PlacedAt
    <3> QED BY <1>2, <2>1, <3>2, Zenon DEF d
  <2>4. CASE ~(Len(cache) < ARP_CACHE_MAX)
    <3> DEFINE v == Neigh!Victim
    <3>1. d = [cache EXCEPT ![v] = f]
      BY <1>4, <2>4, Zenon DEF Neigh!arp_cache_add
    <3>2. v \in 1 .. Len(cache)
      BY <2>4, VictimOf, Zenon
    <3> HIDE DEF d, f, v
    <3>3. PlacedAt(cache, v, f, d)
      BY <1>1, <2>2, <3>1, <3>2 DEF PlacedAt
    <3> QED BY <1>2, <2>1, <3>3, Zenon DEF d
  <2> QED BY <2>3, <2>4, Zenon
<1> QED BY <1>3, <1>4, Zenon

LEMMA HandleArp ==
  ASSUME ArpInv, NEW ip \in Ips, NEW mac \in Macs, Neigh!arp_handle(ip, mac)
  PROVE  ArpInv'
<1>1. /\ cache' = Neigh!arp_cache_add(ip, mac) /\ heard' = [heard EXCEPT ![ip] = mac]
      /\ asked' = [asked EXCEPT ![ip] = 0]
  BY Zenon DEF Neigh!arp_handle
<1>2. PICK i, e : /\ FreshFor(ip, mac, e) /\ OnlyAt(cache, i, ip)
                  /\ PlacedAt(cache, i, e, Neigh!arp_cache_add(ip, mac))
  BY AddPlaced, Zenon
<1>3. PlacedAt(cache, i, e, cache')
  BY <1>1, <1>2, Zenon
<1> QED BY <1>1, <1>2, <1>3, PlaceFresh, Zenon

\* One more request for ip is counted.
LEMMA AskedMore ==
  ASSUME ArpInv, NEW ip \in Ips
  PROVE  /\ Neigh!Asked(ip) \in [Ips -> 0 .. Neigh!ARP_PROBE_MAX]
         /\ \A x \in Ips : asked[x] <= Neigh!Asked(ip)[x]
         /\ \A p \in Nat : p < Neigh!ARP_PROBE_MAX /\ p <= asked[ip] => p + 1 <= Neigh!Asked(ip)[ip]
<1> DEFINE a == asked[ip]
           b == Neigh!MinOf(a + 1, Neigh!ARP_PROBE_MAX)
           more == Neigh!Asked(ip)
<1>1. asked \in [Ips -> 0 .. Neigh!ARP_PROBE_MAX]
  BY Zenon DEF ArpInv
<1>2. a \in 0 .. 3 /\ Neigh!ARP_PROBE_MAX = 3
  BY <1>1 DEF Neigh!ARP_PROBE_MAX
<1> HIDE DEF a
<1>3. b \in 0 .. 3 /\ a <= b /\ \A p \in Nat : p < 3 /\ p <= a => p + 1 <= b
  BY <1>2 DEF Neigh!MinOf
<1>4. more = [asked EXCEPT ![ip] = b]
  BY Zenon DEF Neigh!Asked, a
<1> HIDE DEF b, more
<1>5. more \in [Ips -> 0 .. 3] /\ \A x \in Ips : more[x] = IF x = ip THEN b ELSE asked[x]
  BY <1>1, <1>2, <1>3, <1>4, Zenon
<1>6. \A x \in Ips : asked[x] <= asked[x]
  BY <1>1, <1>2
<1>7. \A x \in Ips : asked[x] <= more[x]
  BY <1>3, <1>5, <1>6, Zenon DEF a
<1> QED BY <1>2, <1>3, <1>5, <1>7, Zenon DEF more, a

LEMMA MissArp ==
  ASSUME ArpInv, NEW ip \in Ips, cache' = cache, heard' = heard, asked' = Neigh!Asked(ip)
  PROVE  ArpInv'
<1>1. /\ asked' \in [Ips -> 0 .. Neigh!ARP_PROBE_MAX] /\ asked \in [Ips -> 0 .. Neigh!ARP_PROBE_MAX]
      /\ \A x \in Ips : asked[x] <= asked'[x]
  BY AskedMore, Zenon DEF ArpInv
<1>2. \A i \in 1 .. Len(cache) : cache[i].probes <= asked'[cache[i].ip]
  <2> SUFFICES ASSUME NEW i \in 1 .. Len(cache) PROVE cache[i].probes <= asked'[cache[i].ip]
    BY Zenon
  <2>1. cache[i] \in Neighbour /\ cache[i].probes <= asked[cache[i].ip]
    BY CacheType, Zenon DEF ArpInv, GoodTable
  <2> DEFINE x == cache[i].ip
             p == cache[i].probes
             a == asked[x]
             b == asked'[x]
  <2>2. x \in Ips /\ p \in Nat
    BY <2>1, Zenon DEF Neighbour
  <2>3. p <= a /\ a <= b /\ a \in 0 .. Neigh!ARP_PROBE_MAX /\ b \in 0 .. Neigh!ARP_PROBE_MAX
    BY <1>1, <2>1, <2>2, Zenon
  <2> HIDE DEF p, a, b
  <2>4. p <= b
    BY <2>2, <2>3
  <2> QED BY <2>4, Zenon DEF p, b
<1>3. GoodTable(cache', heard', asked')
  BY <1>2, Zenon DEF ArpInv, GoodTable
<1> QED BY <1>1, <1>3, Zenon DEF ArpInv, Neigh!ARP_PROBE_MAX, Neigh!AgeCap

LEMMA ProbeArp ==
  ASSUME ArpInv, NEW ip \in Ips, NEW i \in 1 .. Len(cache), cache[i].ip = ip,
         cache[i].probes < Neigh!ARP_PROBE_MAX,
         cache' = [cache EXCEPT ![i].req = 0, ![i].probes = @ + 1],
         heard' = heard, asked' = Neigh!Asked(ip)
  PROVE  ArpInv'
<1> DEFINE s == cache[i]
           e == [s EXCEPT !.req = 0, !.probes = @ + 1]
<1>1. /\ cache \in Seq(Neighbour) /\ Len(cache) \in Nat /\ s \in Neighbour
      /\ DOMAIN cache = 1 .. Len(cache) /\ \A j \in 1 .. Len(cache) : cache[j] \in Neighbour
  BY CacheType, Zenon
<1>2. cache' = [cache EXCEPT ![i] = e]
  BY <1>1, Zenon
<1>3. s.probes \in Nat /\ s.seen \in Nat /\ s.ip = ip /\ s.probes <= asked[ip]
  BY <1>1, Zenon DEF Neighbour, ArpInv, GoodTable
<1>4. s.probes + 1 \in Nat /\ 0 \in Nat
  BY <1>3
<1> HIDE DEF s
<1>5. e \in Neighbour /\ e.ip = s.ip /\ e.mac = s.mac /\ e.seen = s.seen /\ e.probes = s.probes + 1
  BY <1>1, <1>4, Zenon DEF Neighbour
<1> HIDE DEF e
<1>6. cache' \in Seq(Neighbour) /\ Len(cache') = Len(cache)
  <2>1. e \in Neighbour /\ cache \in Seq(Neighbour)
    BY <1>1, <1>5, Zenon
  <2> QED BY <1>2, <2>1
<1>7. \A j \in 1 .. Len(cache) : cache'[j] = IF j = i THEN e ELSE cache[j]
  BY <1>1, <1>2, Zenon
<1>8. /\ asked' \in [Ips -> 0 .. Neigh!ARP_PROBE_MAX] /\ asked \in [Ips -> 0 .. Neigh!ARP_PROBE_MAX]
      /\ \A x \in Ips : asked[x] <= asked'[x]
      /\ e.probes <= asked'[ip]
  BY <1>3, <1>5, AskedMore, Zenon DEF ArpInv, s
<1>9. ASSUME NEW j \in 1 .. Len(cache)
      PROVE  /\ cache'[j].ip = cache[j].ip /\ cache'[j].mac = cache[j].mac
             /\ cache'[j].seen = cache[j].seen
  BY <1>5, <1>7, Zenon DEF s
<1>10. ASSUME NEW j \in 1 .. Len(cache) PROVE cache'[j].probes <= asked'[cache[j].ip]
  <2>1. CASE j = i
    BY <1>3, <1>5, <1>7, <1>8, <2>1, Zenon DEF s
  <2>2. CASE j # i
    <3> DEFINE x == cache[j].ip
               p == cache[j].probes
               a == asked[x]
               b == asked'[x]
    <3>1. x \in Ips /\ p \in Nat /\ p <= a
      BY <1>1, Zenon DEF Neighbour, ArpInv, GoodTable
    <3>2. a <= b /\ a \in 0 .. Neigh!ARP_PROBE_MAX /\ b \in 0 .. Neigh!ARP_PROBE_MAX
      BY <1>8, <3>1, Zenon
    <3>3. cache'[j].probes = p
      BY <1>7, <2>2, Zenon
    <3> HIDE DEF p, a, b
    <3>4. p <= b
      BY <3>1, <3>2
    <3> QED BY <3>3, <3>4, Zenon DEF b
  <2> QED BY <2>1, <2>2, Zenon
<1>11. GoodTable(cache', heard', asked')
  <2>1. GoodTable(cache, heard, asked)
    BY Zenon DEF ArpInv
  <2>2. \A j \in 1 .. Len(cache') : cache'[j].mac = heard'[cache'[j].ip]
    BY <1>6, <1>9, <2>1, Zenon DEF GoodTable
  <2>3. \A j \in 1 .. Len(cache') : cache'[j].probes <= asked'[cache'[j].ip]
    BY <1>6, <1>9, <1>10, Zenon
  <2>4. \A j, l \in 1 .. Len(cache') : cache'[j].ip = cache'[l].ip => j = l
    BY <1>6, <1>9, <2>1, Zenon DEF GoodTable
  <2> QED BY <1>6, <2>2, <2>3, <2>4, Zenon DEF GoodTable
<1>12. \A j \in 1 .. Len(cache') : cache'[j].seen <= Neigh!AgeCap
  BY <1>6, <1>9, Zenon DEF ArpInv
<1> QED BY <1>8, <1>11, <1>12, Zenon DEF ArpInv, Neigh!ARP_PROBE_MAX, Neigh!AgeCap

\* The table with its ages advanced, before arp_tick() looks at it.
Aged(c) == [i \in DOMAIN c |-> [c[i] EXCEPT !.seen = Neigh!Older(@), !.req = Neigh!Older(@)]]

LEMMA AgedTable ==
  ASSUME ArpInv
  PROVE  /\ Aged(cache) \in Seq(Neighbour) /\ Len(Aged(cache)) = Len(cache)
         /\ \A i \in 1 .. Len(cache) :
              /\ Aged(cache)[i].ip = cache[i].ip /\ Aged(cache)[i].mac = cache[i].mac
              /\ Aged(cache)[i].probes = cache[i].probes
              /\ Aged(cache)[i].seen <= Neigh!AgeCap
<1> DEFINE Aging(e) == [e EXCEPT !.seen = Neigh!Older(@), !.req = Neigh!Older(@)]
<1>1. ASSUME NEW n \in Nat PROVE Neigh!Older(n) \in Nat /\ Neigh!Older(n) <= Neigh!AgeCap
  BY CapType DEF Neigh!Older, Neigh!MinOf
<1>2. ASSUME NEW e \in Neighbour
      PROVE  /\ Aging(e) \in Neighbour /\ Aging(e).ip = e.ip /\ Aging(e).mac = e.mac
             /\ Aging(e).probes = e.probes /\ Aging(e).seen <= Neigh!AgeCap
  <2>1. /\ e.seen \in Nat /\ e.req \in Nat
        /\ Neigh!Older(e.seen) \in Nat /\ Neigh!Older(e.req) \in Nat
        /\ Neigh!Older(e.seen) <= Neigh!AgeCap
    BY <1>1, Zenon DEF Neighbour
  <2> QED BY <2>1, Zenon DEF Neighbour
<1> HIDE DEF Aging
<1>3. /\ cache \in Seq(Neighbour) /\ Len(cache) \in Nat /\ DOMAIN cache = 1 .. Len(cache)
      /\ \A j \in 1 .. Len(cache) : cache[j] \in Neighbour
  BY CacheType, Zenon
<1>4. Aged(cache) = [i \in 1 .. Len(cache) |-> Aging(cache[i])]
  BY <1>3, Zenon DEF Aged, Aging
<1> HIDE DEF Aged
<1>5. \A i \in 1 .. Len(cache) : Aged(cache)[i] = Aging(cache[i]) /\ Aging(cache[i]) \in Neighbour
  BY <1>2, <1>3, <1>4, Zenon
<1>6. Aged(cache) \in Seq(Neighbour) /\ Len(Aged(cache)) = Len(cache)
  BY <1>3, <1>4, <1>5
<1> QED BY <1>2, <1>3, <1>5, <1>6, Zenon

LEMMA TickLeft ==
  ASSUME ArpInv, Neigh!arp_tick
  PROVE  LeftOf(Aged(cache), cache')
<1> DEFINE d == Aged(cache)
<1>1. cache' = Neigh!Swept(d)
  BY Zenon DEF Neigh!arp_tick, Aged
<1>2. /\ d \in Seq(Neighbour) /\ Len(d) = Len(cache)
      /\ \A i \in 1 .. Len(d) : d[i].ip = cache[i].ip
  BY AgedTable, Zenon
<1> HIDE DEF d
<1>3. \A i, j \in 1 .. Len(d) : d[i].ip = d[j].ip => i = j
  BY <1>2, Zenon DEF ArpInv, GoodTable
<1>4. LeftOf(d, d)
  BY <1>2, <1>3, Zenon DEF LeftOf
<1> QED BY <1>1, <1>2, <1>4, SweptLeft, Zenon DEF d

LEMMA TickArp ==
  ASSUME ArpInv, Neigh!arp_tick
  PROVE  ArpInv'
<1> DEFINE d == Aged(cache)
<1>1. heard' = heard /\ asked' = asked
  BY Zenon DEF Neigh!arp_tick
<1>2. LeftOf(d, cache')
  BY TickLeft, Zenon
<1>3. \A i \in 1 .. Len(d) : /\ d[i].mac = heard[d[i].ip] /\ d[i].probes <= asked[d[i].ip]
                             /\ d[i].seen <= Neigh!AgeCap
  <2>1. /\ Len(d) = Len(cache)
        /\ \A i \in 1 .. Len(cache) :
             /\ d[i].ip = cache[i].ip /\ d[i].mac = cache[i].mac
             /\ d[i].probes = cache[i].probes /\ d[i].seen <= Neigh!AgeCap
    BY AgedTable, Zenon
  <2> HIDE DEF d
  <2> QED BY <2>1, Zenon DEF ArpInv, GoodTable
<1> HIDE DEF d
<1>4. ASSUME NEW j \in 1 .. Len(cache')
      PROVE  /\ cache'[j].mac = heard[cache'[j].ip] /\ cache'[j].probes <= asked[cache'[j].ip]
             /\ cache'[j].seen <= Neigh!AgeCap
  <2>1. PICK i \in 1 .. Len(d) : cache'[j] = d[i]
    BY <1>2, Zenon DEF LeftOf
  <2> QED BY <1>3, <2>1, Zenon
<1>5. GoodTable(cache', heard', asked')
  BY <1>1, <1>2, <1>4, Zenon DEF GoodTable, LeftOf
<1> QED BY <1>1, <1>4, <1>5, Zenon DEF ArpInv, Neigh!ARP_PROBE_MAX, Neigh!AgeCap

LEMMA ArpKept ==
  ASSUME ArpInv, cache' = cache, heard' = heard, asked' = asked
  PROVE  ArpInv'
  BY Zenon DEF ArpInv, GoodTable, Neigh!ARP_PROBE_MAX, Neigh!AgeCap, Neighbour

LEMMA ResolveArp ==
  ASSUME ArpInv, NEW ip \in Ips, NEW submitted, Neigh!arp_resolve_hit(ip, submitted)
  PROVE  ArpInv'
<1> DEFINE i == Neigh!arp_lookup(ip)
           sent == /\ Neigh!NeedsProbe(cache[i]) /\ cache[i].req >= Neigh!ARP_RETRANS
                   /\ submitted
<1>1. /\ Neigh!At(ip) # {} /\ heard' = heard
      /\ cache' = IF sent THEN [cache EXCEPT ![i].req = 0, ![i].probes = @ + 1] ELSE cache
      /\ asked' = IF sent THEN Neigh!Asked(ip) ELSE asked
  BY Zenon DEF Neigh!arp_resolve_hit
<1>2. i \in DOMAIN cache /\ cache[i].ip = ip
  <2>1. Neigh!At(ip) \subseteq DOMAIN cache
    BY Zenon DEF Neigh!At
  <2>2. i \in Neigh!At(ip)
    BY <1>1, <2>1, FirstEntry, Zenon DEF Neigh!arp_lookup
  <2> QED BY <2>2, Zenon DEF Neigh!At
<1>3. i \in 1 .. Len(cache)
  BY <1>2, CacheType, Zenon
<1>4. sent => cache[i].probes < Neigh!ARP_PROBE_MAX
  BY Zenon DEF Neigh!NeedsProbe
<1> HIDE DEF i, sent
<1>5. CASE sent
  BY <1>1, <1>2, <1>3, <1>4, <1>5, ProbeArp, Zenon
<1>6. CASE ~sent
  BY <1>1, <1>6, ArpKept, Zenon
<1> QED BY <1>5, <1>6, Zenon

LEMMA ArpNext == ArpInv /\ [Neigh!Next]_(Neigh!vars) => ArpInv'
<1> SUFFICES ASSUME ArpInv, [Neigh!Next]_(Neigh!vars) PROVE ArpInv'
  BY Zenon
<1>1. ASSUME NEW ip \in Ips, NEW mac \in Macs, Neigh!arp_handle(ip, mac) PROVE ArpInv'
  BY <1>1, HandleArp, Zenon
<1>2. ASSUME NEW ip \in Ips, NEW submitted \in BOOLEAN, Neigh!arp_resolve_hit(ip, submitted)
      PROVE  ArpInv'
  BY <1>2, ResolveArp, Zenon
<1>3. ASSUME NEW ip \in Ips, NEW submitted \in BOOLEAN, Neigh!arp_resolve_miss(ip, submitted)
      PROVE  ArpInv'
  BY <1>3, MissArp, Zenon DEF Neigh!arp_resolve_miss
<1>4. CASE Neigh!arp_tick
  BY <1>4, TickArp, Zenon
<1>5. ASSUME NEW ip \in Ips, Neigh!FallSilent(ip) PROVE ArpInv'
  BY <1>5, ArpKept, Zenon DEF Neigh!FallSilent
<1>6. CASE UNCHANGED Neigh!vars
  BY <1>6, ArpKept, Zenon DEF Neigh!vars
<1> QED BY <1>1, <1>2, <1>3, <1>4, <1>5, <1>6, Zenon DEF Neigh!Next

\* The ARP cache has one entry for an address, with the MAC its host announced
\* last (arp_cache_add(), arp_cache_del()), for any hosts and any size of the
\* table.
THEOREM AnswersAsHeard == Neigh!Spec => []AnswersHeard
<1>1. Neigh!Init => ArpInv
  BY ArpInit
<1>2. ArpInv /\ [Neigh!Next]_(Neigh!vars) => ArpInv'
  BY ArpNext
<1>3. ArpInv => AnswersHeard
  BY ArpGood
<1> QED BY <1>1, <1>2, <1>3, PTL DEF Neigh!Spec

\* arp_tick() drops the entry of an address only when ARP_PROBE_MAX requests
\* went out since its host was last heard.
THEOREM OnlySilentDropped == Neigh!Spec => Neigh!DropsSilent
<1> DEFINE Drop(ip) == Neigh!arp_tick /\ Neigh!At(ip) # {} /\ Neigh!At(ip)' = {}
                         => asked[ip] >= Neigh!ARP_PROBE_MAX
<1>1. ArpInv /\ [Neigh!Next]_(Neigh!vars) => [\A ip \in Ips : Drop(ip)]_(Neigh!vars)
  <2> SUFFICES ASSUME ArpInv, NEW ip \in Ips, Neigh!arp_tick, Neigh!At(ip) # {}, Neigh!At(ip)' = {}
               PROVE  asked[ip] >= Neigh!ARP_PROBE_MAX
    BY Zenon
  <2> DEFINE d == Aged(cache)
  <2>1. PICK i \in 1 .. Len(cache) : cache[i].ip = ip
    BY CacheType, Zenon DEF Neigh!At
  <2>2. LeftOf(d, cache')
    BY TickLeft, Zenon
  <2>3. Len(d) = Len(cache) /\ d[i].ip = ip /\ d[i].probes = cache[i].probes
    BY <2>1, AgedTable, Zenon
  <2> HIDE DEF d
  <2>4. DOMAIN cache' = 1 .. Len(cache')
    BY <2>2 DEF LeftOf
  <2>5. Neigh!Dead(d[i])
    <3> SUFFICES ASSUME ~Neigh!Dead(d[i]) PROVE FALSE
      BY Zenon
    <3>1. PICK j \in 1 .. Len(cache') : cache'[j] = d[i]
      BY <2>2, <2>3, Zenon DEF LeftOf
    <3>2. j \in DOMAIN cache' /\ cache'[j].ip = ip
      BY <2>3, <2>4, <3>1, Zenon
    <3> QED BY <3>2, Zenon DEF Neigh!At
  <2> DEFINE p == cache[i].probes
             a == asked[ip]
  <2>6. p >= Neigh!ARP_PROBE_MAX
    BY <2>3, <2>5, Zenon DEF Neigh!Dead
  <2>7. p <= a /\ p \in Nat /\ a \in 0 .. Neigh!ARP_PROBE_MAX
    <3>1. cache[i] \in Neighbour
      BY CacheType, Zenon
    <3> QED BY <2>1, <3>1, Zenon DEF ArpInv, GoodTable, Neighbour
  <2> HIDE DEF p, a
  <2>8. a >= Neigh!ARP_PROBE_MAX
    BY <2>6, <2>7 DEF Neigh!ARP_PROBE_MAX
  <2> QED BY <2>8, Zenon DEF a
<1>2. Neigh!Init => ArpInv
  BY ArpInit
<1>3. ArpInv /\ [Neigh!Next]_(Neigh!vars) => ArpInv'
  BY ArpNext
<1> QED BY <1>1, <1>2, <1>3, PTL DEF Neigh!Spec, Neigh!DropsSilent

-----------------------------------------------------------------------------
\* The datagram sockets.

-----------------------------------------------------------------------------
(* The bytes of a queue.                                                   *)

AnyPort == UdpPorts \cup DnsPorts \cup {Dgram!EchoPort}
Datagram == [port : AnyPort, len : Nat]

IsTotal(f, q) ==
  f = [k \in 0 .. Len(q) |-> IF k = 0 THEN 0 ELSE f[k - 1] + Dgram!Entry(q[k].len)]

\* n is the sum of the entries of q.
Sums(q, n) == \E f \in [0 .. Len(q) -> Int] : IsTotal(f, q) /\ f[Len(q)] = n

LEMMA EntryType ==
  ASSUME NEW e \in Datagram
  PROVE  Dgram!Entry(e.len) \in Nat /\ Dgram!Entry(e.len) > 0
<1>1. e.len \in Nat
  BY Zenon DEF Datagram
<1>2. e.len \in Nat /\ Header \in Nat \ {0}
  BY <1>1, DatagramsAssumption, Zenon
<1> QED BY <1>2 DEF Dgram!Entry

LEMMA TotalRules ==
  ASSUME NEW q, NEW f
  PROVE  IsTotal(f, q) <=>
           /\ f = [k \in 0 .. Len(q) |-> f[k]]
           /\ \A k \in 0 .. Len(q) : f[k] = IF k = 0 THEN 0 ELSE f[k - 1] + Dgram!Entry(q[k].len)
  BY Zenon DEF IsTotal

LEMMA TotalUnique ==
  ASSUME NEW q, Len(q) \in Nat, NEW f, NEW g, IsTotal(f, q), IsTotal(g, q)
  PROVE  f[Len(q)] = g[Len(q)]
<1> DEFINE T == {k \in 0 .. Len(q) : f[k] # g[k]}
<1>1. SUFFICES ASSUME T # {} PROVE FALSE
  <2>1. Len(q) \in 0 .. Len(q)
    OBVIOUS
  <2> QED BY <1>1, <2>1, Zenon
<1>2. T \subseteq Nat
  OBVIOUS
<1>3. PICK m \in T : \A k \in T : m <= k
  BY <1>1, <1>2, LeastNumber, Zenon
<1>4. m \in 0 .. Len(q) /\ f[m] # g[m]
  BY Zenon
<1>5. m # 0
  BY <1>4, TotalRules, Zenon
<1>6. m - 1 \in 0 .. Len(q) /\ ~(m <= m - 1)
  BY <1>4, <1>5
<1>7. f[m - 1] = g[m - 1]
  BY <1>3, <1>6, Zenon
<1> QED BY <1>4, <1>5, <1>7, TotalRules, Zenon

LEMMA SumsTotal ==
  ASSUME NEW q, Len(q) \in Nat, NEW n, Sums(q, n)
  PROVE  Dgram!TotalOf(q) = n
<1>1. PICK g : IsTotal(g, q) /\ g[Len(q)] = n
  BY Zenon DEF Sums
<1> DEFINE f == CHOOSE h : IsTotal(h, q)
<1>2. IsTotal(f, q)
  BY <1>1, Zenon
<1> HIDE DEF f
<1>3. f[Len(q)] = n
  BY <1>1, <1>2, TotalUnique, Zenon
<1> QED BY <1>3 DEF Dgram!TotalOf, IsTotal, f

LEMMA SumsEmpty == Sums(<<>>, 0) /\ \A n : Sums(<<>>, n) => n = 0
<1> DEFINE q == <<>>
           g == [k \in 0 .. Len(q) |-> 0]
<1>1. Len(q) = 0
  OBVIOUS
<1>2. g \in [0 .. Len(q) -> Int] /\ g[Len(q)] = 0 /\ \A k \in 0 .. Len(q) : k = 0 /\ g[k] = 0
  BY <1>1
<1>3. g = [k \in 0 .. Len(q) |-> g[k]]
  BY Zenon
<1> HIDE DEF g, q
<1>4. IsTotal(g, q)
  <2>1. \A k \in 0 .. Len(q) : g[k] = IF k = 0 THEN 0 ELSE g[k - 1] + Dgram!Entry(q[k].len)
    BY <1>2
  <2> QED BY <1>3, <2>1, TotalRules, Zenon
<1>5. ASSUME NEW n, NEW f, IsTotal(f, q), f[Len(q)] = n PROVE n = 0
  <2>1. 0 \in 0 .. Len(q)
    BY <1>1
  <2> QED BY <1>1, <1>5, <2>1, TotalRules, Zenon
<1>6. Sums(q, 0)
  BY <1>2, <1>4, Zenon DEF Sums
<1>7. \A n : Sums(q, n) => n = 0
  BY <1>5, Zenon DEF Sums
<1> QED BY <1>6, <1>7, Zenon DEF q

\* udp_handle() appends an entry.
LEMMA SumsAppend ==
  ASSUME NEW q \in Seq(Datagram), NEW n \in Int, Sums(q, n), NEW e \in Datagram
  PROVE  Sums(Append(q, e), n + Dgram!Entry(e.len))
<1> DEFINE r == Append(q, e)
           m == Len(q)
           x == Dgram!Entry(e.len)
<1>1. m \in Nat /\ Len(r) = m + 1 /\ r[m + 1] = e /\ \A k \in 1 .. m : r[k] = q[k]
  OBVIOUS
<1>2. x \in Nat
  BY EntryType, Zenon
<1> HIDE DEF r, m, x
<1>3. PICK f \in [0 .. m -> Int] : IsTotal(f, q) /\ f[m] = n
  BY Zenon DEF Sums, m
<1>4. \A k \in 0 .. m : f[k] = IF k = 0 THEN 0 ELSE f[k - 1] + Dgram!Entry(q[k].len)
  BY <1>3, TotalRules, Zenon DEF m
<1> DEFINE g == [k \in 0 .. Len(r) |-> IF k = m + 1 THEN n + x ELSE f[k]]
<1>5. \A k \in 0 .. Len(r) : g[k] = IF k = 0 THEN 0 ELSE g[k - 1] + Dgram!Entry(r[k].len)
  <2> SUFFICES ASSUME NEW k \in 0 .. Len(r)
               PROVE  g[k] = IF k = 0 THEN 0 ELSE g[k - 1] + Dgram!Entry(r[k].len)
    BY Zenon
  <2>1. CASE k = m + 1
    <3>1. k # 0 /\ k - 1 = m /\ m \in 0 .. Len(r) /\ m # m + 1
      BY <1>1, <2>1
    <3>2. g[k] = n + x /\ g[m] = f[m]
      BY <2>1, <3>1, Zenon
    <3> QED BY <1>1, <1>3, <2>1, <3>1, <3>2, Zenon DEF x
  <2>2. CASE k # m + 1
    <3>1. k \in 0 .. m /\ (k # 0 => k \in 1 .. m /\ k - 1 \in 0 .. Len(r) /\ k - 1 # m + 1)
      BY <1>1, <2>2
    <3>2. g[k] = f[k] /\ (k # 0 => g[k - 1] = f[k - 1])
      BY <2>2, <3>1, Zenon
    <3> QED BY <1>1, <1>4, <3>1, <3>2, Zenon
  <2> QED BY <2>1, <2>2, Zenon
<1>6. g = [k \in 0 .. Len(r) |-> g[k]]
  BY Zenon
<1>7. g \in [0 .. Len(r) -> Int] /\ g[Len(r)] = n + x
  <2>1. n + x \in Int /\ \A k \in 0 .. Len(r) : k # m + 1 => f[k] \in Int
    BY <1>1, <1>2, <1>3
  <2>2. Len(r) \in 0 .. Len(r)
    BY <1>1
  <2> QED BY <1>1, <2>1, <2>2, Zenon
<1> HIDE DEF g
<1>8. IsTotal(g, r)
  BY <1>5, <1>6, TotalRules, Zenon
<1> QED BY <1>7, <1>8, Zenon DEF Sums, r, x

\* udp_recvfrom() removes the first entry.
LEMMA SumsTail ==
  ASSUME NEW q \in Seq(Datagram), q # <<>>, NEW n \in Int, Sums(q, n)
  PROVE  Sums(Tail(q), n - Dgram!Entry(Head(q).len))
<1> DEFINE r == Tail(q)
           m == Len(q)
           x == Dgram!Entry(Head(q).len)
<1>1. /\ m \in Nat /\ m > 0 /\ Len(r) = m - 1 /\ Head(q) = q[1] /\ q[1] \in Datagram
      /\ \A k \in 1 .. m - 1 : r[k] = q[k + 1]
  OBVIOUS
<1>2. x = Dgram!Entry(q[1].len)
  BY <1>1, Zenon
<1>3. x \in Int /\ \A k \in 1 .. m : Dgram!Entry(q[k].len) \in Int
  <2>1. ASSUME NEW k \in 1 .. m PROVE Dgram!Entry(q[k].len) \in Int
    <3>1. q[k] \in Datagram
      OBVIOUS
    <3>2. Dgram!Entry(q[k].len) \in Nat
      BY <3>1, EntryType, Zenon
    <3> QED BY <3>2
  <2>2. 1 \in 1 .. m
    BY <1>1
  <2> QED BY <1>2, <2>1, <2>2, Zenon
<1> HIDE DEF r, m, x
<1>4. PICK f \in [0 .. m -> Int] : IsTotal(f, q) /\ f[m] = n
  BY Zenon DEF Sums, m
<1>5. \A k \in 0 .. m : f[k] = IF k = 0 THEN 0 ELSE f[k - 1] + Dgram!Entry(q[k].len)
  BY <1>4, TotalRules, Zenon DEF m
<1>6. f[1] = x
  <2>1. 0 \in 0 .. m /\ 1 \in 0 .. m /\ 1 # 0 /\ 1 - 1 = 0
    BY <1>1
  <2>2. f[0] = 0 /\ f[1] = f[1 - 1] + x
    BY <1>2, <1>5, <2>1, Zenon
  <2> QED BY <1>3, <2>1, <2>2
<1> DEFINE g == [k \in 0 .. Len(r) |-> f[k + 1] - x]
<1>7. \A k \in 0 .. Len(r) : g[k] = IF k = 0 THEN 0 ELSE g[k - 1] + Dgram!Entry(r[k].len)
  <2> SUFFICES ASSUME NEW k \in 0 .. Len(r)
               PROVE  g[k] = IF k = 0 THEN 0 ELSE g[k - 1] + Dgram!Entry(r[k].len)
    BY Zenon
  <2>1. CASE k = 0
    <3>1. k + 1 = 1 /\ x - x = 0
      BY <1>3, <2>1
    <3>2. g[k] = f[k + 1] - x
      BY Zenon
    <3> QED BY <1>6, <2>1, <3>1, <3>2, Zenon
  <2>2. CASE k # 0
    <3>1. /\ k + 1 \in 0 .. m /\ k + 1 # 0 /\ (k + 1) - 1 = k /\ (k - 1) + 1 = k
          /\ k \in 1 .. m - 1 /\ k - 1 \in 0 .. Len(r) /\ k \in 0 .. m /\ k + 1 \in 1 .. m
      BY <1>1, <2>2
    <3>2. f[k + 1] = f[(k + 1) - 1] + Dgram!Entry(q[k + 1].len)
      BY <1>5, <3>1, Zenon
    <3> DEFINE y == Dgram!Entry(r[k].len)
               a == f[k + 1]
               b == f[k]
    <3>3. a = b + y
      BY <1>1, <3>1, <3>2, Zenon
    <3>4. g[k] = a - x /\ g[k - 1] = b - x
      BY <3>1, Zenon
    <3>5. y \in Int /\ b \in Int
      BY <1>1, <1>3, <3>1, Zenon
    <3> HIDE DEF y, a, b, g
    <3>6. a - x = (b - x) + y
      BY <1>3, <3>3, <3>5
    <3> QED BY <2>2, <3>4, <3>6, Zenon DEF y
  <2> QED BY <2>1, <2>2, Zenon
<1>8. g = [k \in 0 .. Len(r) |-> g[k]]
  BY Zenon
<1>9. g \in [0 .. Len(r) -> Int] /\ g[Len(r)] = n - x
  <2>1. ASSUME NEW k \in 0 .. Len(r) PROVE f[k + 1] - x \in Int
    <3>1. k + 1 \in 0 .. m
      BY <1>1
    <3>2. f[k + 1] \in Int
      BY <3>1
    <3> QED BY <1>3, <3>2
  <2>2. Len(r) \in 0 .. Len(r) /\ Len(r) + 1 = m
    BY <1>1
  <2>3. g[Len(r)] = f[Len(r) + 1] - x
    BY <2>2, Zenon
  <2>4. g \in [0 .. Len(r) -> Int]
    BY <2>1, Zenon
  <2> HIDE DEF g
  <2> QED BY <1>4, <2>2, <2>3, <2>4, Zenon
<1> HIDE DEF g
<1>10. IsTotal(g, r)
  BY <1>7, <1>8, TotalRules, Zenon
<1> QED BY <1>9, <1>10, Zenon DEF Sums, r, x

LEMMA SumsNat ==
  ASSUME NEW q \in Seq(Datagram), NEW n, Sums(q, n)
  PROVE  n \in Nat
<1>1. PICK f \in [0 .. Len(q) -> Int] : IsTotal(f, q) /\ f[Len(q)] = n
  BY Zenon DEF Sums
<1> DEFINE T == {k \in 0 .. Len(q) : ~(f[k] >= 0)}
<1>2. SUFFICES ASSUME T # {} PROVE FALSE
  <2>1. Len(q) \in 0 .. Len(q)
    OBVIOUS
  <2>2. f[Len(q)] \in Int /\ f[Len(q)] >= 0
    BY <1>2, <2>1, Zenon
  <2> QED BY <1>1, <2>2
<1>3. T \subseteq Nat
  OBVIOUS
<1>4. PICK m \in T : \A k \in T : m <= k
  BY <1>2, <1>3, LeastNumber, Zenon
<1>5. m \in 0 .. Len(q) /\ ~(f[m] >= 0)
  BY Zenon
<1>6. m # 0
  <2>1. m = 0 => f[m] = 0
    BY <1>1, <1>5, TotalRules, Zenon
  <2> QED BY <1>5, <2>1
<1>7. m - 1 \in 0 .. Len(q) /\ ~(m <= m - 1) /\ m \in 1 .. Len(q)
  BY <1>5, <1>6
<1>8. f[m - 1] \in Int /\ f[m - 1] >= 0
  BY <1>4, <1>7, Zenon
<1>9. f[m] = f[m - 1] + Dgram!Entry(q[m].len)
  BY <1>1, <1>5, <1>6, TotalRules, Zenon
<1>10. q[m] \in Datagram
  BY <1>7
<1>11. Dgram!Entry(q[m].len) \in Nat
  BY <1>10, EntryType, Zenon
<1> HIDE DEF T
<1>12. \A x \in Int, y \in Nat : x >= 0 => x + y >= 0
  OBVIOUS
<1> QED BY <1>5, <1>8, <1>9, <1>11, <1>12, Zenon

-----------------------------------------------------------------------------
(* The sockets.                                                            *)

Socket == [used : BOOLEAN, bound : BOOLEAN, owned : BOOLEAN, lport : AnyPort \cup {0},
           n : Int, rxb : Seq(Datagram)]

\* A bound socket is in use and holds datagrams for its own port.
SockOK(s) ==
  /\ s \in Socket
  /\ s.bound => s.used /\ \A k \in DOMAIN s.rxb : s.rxb[k].port = s.lport
  /\ Sums(s.rxb, s.n) /\ s.n <= UDP_RXBUF

Query == [at : {"out", "wait", "moved"}, slot : Dgram!Slots]
Queries == [Resolvers -> Query]

UdpInv ==
  /\ usocks \in [Dgram!Slots -> Socket] /\ dns \in Queries
  /\ \A i \in Dgram!Slots : SockOK(usocks[i])
  /\ Dgram!PortsDistinct

LEMMA UdpGood == UdpInv => OwnDatagrams
<1> SUFFICES ASSUME UdpInv PROVE OwnDatagrams
  BY Zenon
<1>1. Dgram!OwnDatagrams
  BY Zenon DEF UdpInv, SockOK, Dgram!OwnDatagrams
<1>2. Dgram!QueueFits
  <2> SUFFICES ASSUME NEW i \in Dgram!Slots
               PROVE  usocks[i].n = Dgram!TotalOf(usocks[i].rxb) /\ usocks[i].n <= UDP_RXBUF
    BY Zenon DEF Dgram!QueueFits
  <2>1. usocks[i] \in Socket /\ Sums(usocks[i].rxb, usocks[i].n) /\ usocks[i].n <= UDP_RXBUF
    BY Zenon DEF UdpInv, SockOK
  <2>2. usocks[i].rxb \in Seq(Datagram)
    BY <2>1, Zenon DEF Socket
  <2>3. Len(usocks[i].rxb) \in Nat
    BY <2>2
  <2> QED BY <2>1, <2>3, SumsTotal, Zenon
<1> QED BY <1>1, <1>2, Zenon DEF UdpInv, OwnDatagrams

\* r may take the place of socket i.
MayReplace(i, r) ==
  /\ SockOK(r)
  /\ r.bound => \A j \in Dgram!Slots \ {i} : usocks[j].bound => usocks[j].lport # r.lport

LEMMA Replaced ==
  ASSUME UdpInv, NEW i \in Dgram!Slots, NEW r, MayReplace(i, r),
         usocks' = [usocks EXCEPT ![i] = r], dns' \in Queries
  PROVE  UdpInv'
<1>1. SockOK(r) /\ r \in Socket
  BY Zenon DEF MayReplace, SockOK
<1>2. usocks \in [Dgram!Slots -> Socket] /\ \A j \in Dgram!Slots : SockOK(usocks[j])
  BY Zenon DEF UdpInv
<1>3. usocks' \in [Dgram!Slots -> Socket]
  BY <1>1, <1>2, Zenon
<1>4. \A j \in Dgram!Slots : usocks'[j] = IF j = i THEN r ELSE usocks[j]
  BY <1>2, Zenon
<1>5. \A j \in Dgram!Slots : SockOK(usocks'[j])
  BY <1>1, <1>2, <1>4, Zenon
<1>6. Dgram!PortsDistinct'
  <2> SUFFICES ASSUME NEW j \in Dgram!Slots, NEW k \in Dgram!Slots, usocks'[j].bound,
                      usocks'[k].bound, usocks'[j].lport = usocks'[k].lport
               PROVE  j = k
    BY Zenon DEF Dgram!PortsDistinct, Dgram!Slots
  <2>1. CASE j = i /\ k = i
    BY <2>1, Zenon
  <2>2. CASE j = i /\ k # i
    BY <1>4, <2>2, Zenon DEF MayReplace
  <2>3. CASE j # i /\ k = i
    BY <1>4, <2>3, Zenon DEF MayReplace
  <2>4. CASE j # i /\ k # i
    BY <1>4, <2>4, Zenon DEF UdpInv, Dgram!PortsDistinct
  <2> QED BY <2>1, <2>2, <2>3, <2>4, Zenon
<1> HIDE DEF Dgram!PortsDistinct
<1> QED BY <1>3, <1>5, <1>6, Zenon DEF UdpInv, Dgram!Slots, SockOK, Socket, Queries, Query

LEMMA UdpSame ==
  ASSUME UdpInv, usocks' = usocks, dns' \in Queries
  PROVE  UdpInv'
  BY Zenon DEF UdpInv, Dgram!PortsDistinct, Dgram!Slots, SockOK, Socket, Queries, Query

LEMMA FirstSlot ==
  ASSUME NEW S, S \subseteq Dgram!Slots, S # {}
  PROVE  Dgram!First(S) \in S
<1>1. S \subseteq Nat
  BY DatagramsAssumption DEF Dgram!Slots
<1> QED BY <1>1, LeastNumber, Zenon DEF Dgram!First

LEMMA EmptiedOK ==
  ASSUME NEW u \in BOOLEAN, NEW b \in BOOLEAN, NEW o \in BOOLEAN, NEW p \in AnyPort \cup {0},
         NEW r, r = Dgram!Emptied(u, b, o, p), b => u
  PROVE  SockOK(r) /\ r.bound = b /\ r.lport = p
<1>1. r = [used |-> u, bound |-> b, owned |-> o, lport |-> p, n |-> 0, rxb |-> <<>>]
  BY Zenon DEF Dgram!Emptied
<1>2. <<>> \in Seq(Datagram) /\ 0 \in Int /\ DOMAIN <<>> = {} /\ 0 <= UDP_RXBUF
  BY DatagramsAssumption
<1>3. r.used = u /\ r.bound = b /\ r.lport = p /\ r.n = 0 /\ r.rxb = <<>>
  BY <1>1
<1>4. r \in Socket
  BY <1>1, <1>2 DEF Socket
<1> QED BY <1>2, <1>3, <1>4, SumsEmpty, Zenon DEF SockOK

LEMMA UdpInit == Dgram!Init => UdpInv
<1> SUFFICES ASSUME Dgram!Init PROVE UdpInv
  BY Zenon
<1> DEFINE echo == Dgram!Emptied(TRUE, TRUE, FALSE, Dgram!EchoPort)
           none == Dgram!Emptied(FALSE, FALSE, FALSE, 0)
<1>1. SockOK(none) /\ ~none.bound
  BY EmptiedOK, Zenon
<1>2. SockOK(echo)
  BY EmptiedOK, Zenon DEF AnyPort
<1>3. usocks = [i \in Dgram!Slots |-> IF i = 0 THEN echo ELSE none]
      /\ dns = [r \in Resolvers |-> Dgram!NoQuery]
  BY Zenon DEF Dgram!Init
<1> HIDE DEF echo, none
<1>4. \A i \in Dgram!Slots : usocks[i] = IF i = 0 THEN echo ELSE none
  BY <1>3, Zenon
<1>5. \A i \in Dgram!Slots : SockOK(usocks[i])
  BY <1>1, <1>2, <1>4, Zenon
<1>6. usocks \in [Dgram!Slots -> Socket]
  BY <1>3, <1>1, <1>2, Zenon DEF SockOK
<1>7. Dgram!PortsDistinct
  BY <1>1, <1>4, Zenon DEF Dgram!PortsDistinct
<1>8. Dgram!NoQuery \in Query
  BY DatagramsAssumption DEF Dgram!NoQuery, Query, Dgram!Slots
<1>9. dns \in Queries
  BY <1>3, <1>8, Zenon DEF Queries
<1> QED BY <1>5, <1>6, <1>7, <1>9, Zenon DEF UdpInv

\* A slot that is given up.
Closed(s) == [s EXCEPT !.used = FALSE, !.bound = FALSE]

LEMMA ClosedOK ==
  ASSUME NEW s, SockOK(s)
  PROVE  SockOK(Closed(s)) /\ ~Closed(s).bound
<1>1. s \in Socket
  BY Zenon DEF SockOK
<1>2. /\ Closed(s) \in Socket /\ Closed(s).bound = FALSE /\ Closed(s).rxb = s.rxb
      /\ Closed(s).n = s.n
  BY <1>1, Zenon DEF Closed, Socket
<1> QED BY <1>2, Zenon DEF SockOK

\* A port that nobody has.
LEMMA FreePort ==
  ASSUME UdpInv, NEW i \in Dgram!Slots, NEW r, SockOK(r), Dgram!udp_sock_by_port(r.lport) = {}
  PROVE  MayReplace(i, r)
<1>1. \A j \in Dgram!Slots : usocks[j].bound => usocks[j].used
  BY Zenon DEF UdpInv, SockOK
<1> QED BY <1>1, Zenon DEF MayReplace, Dgram!udp_sock_by_port

LEMMA OpenStep ==
  ASSUME UdpInv, Dgram!net_socket_open
  PROVE  UdpInv'
<1> DEFINE i == Dgram!First(Dgram!FreeSlots)
           r == Dgram!Emptied(TRUE, FALSE, TRUE, 0)
<1>1. i \in Dgram!Slots
  BY FirstSlot, Zenon DEF Dgram!net_socket_open, Dgram!FreeSlots
<1>2. SockOK(r) /\ ~r.bound
  BY EmptiedOK, Zenon
<1>3. usocks' = [usocks EXCEPT ![i] = r] /\ dns' \in Queries
  BY Zenon DEF Dgram!net_socket_open, UdpInv
<1> HIDE DEF i, r
<1> QED BY <1>1, <1>2, <1>3, Replaced, Zenon DEF MayReplace

LEMMA BindStep ==
  ASSUME UdpInv, NEW i \in Dgram!Slots, NEW port \in UdpPorts, Dgram!net_socket_bind(i, port)
  PROVE  UdpInv'
<1> DEFINE s == usocks[i]
           r == [s EXCEPT !.bound = TRUE, !.lport = port, !.n = 0, !.rxb = <<>>]
<1>1. usocks \in [Dgram!Slots -> Socket] /\ s \in Socket
  BY Zenon DEF UdpInv
<1>2. s.used /\ Dgram!udp_sock_by_port(port) = {} /\ dns' \in Queries
  BY Zenon DEF Dgram!net_socket_bind, Dgram!MayBind, UdpInv
<1>3. usocks' = [usocks EXCEPT ![i] = r]
  BY <1>1, Zenon DEF Dgram!net_socket_bind
<1> HIDE DEF s
<1>4. port \in AnyPort \cup {0} /\ <<>> \in Seq(Datagram) /\ 0 \in Int
  BY DEF AnyPort
<1>5. r \in Socket /\ r.used = s.used /\ r.lport = port /\ r.n = 0 /\ r.rxb = <<>>
  BY <1>1, <1>4, Zenon DEF Socket
<1> HIDE DEF r
<1>6. DOMAIN r.rxb = {} /\ 0 <= UDP_RXBUF
  BY <1>5, DatagramsAssumption
<1>7. SockOK(r)
  BY <1>2, <1>5, <1>6, SumsEmpty, Zenon DEF SockOK
<1>8. MayReplace(i, r)
  BY <1>2, <1>5, <1>7, FreePort, Zenon
<1> QED BY <1>2, <1>3, <1>8, Replaced, Zenon

LEMMA CloseStep ==
  ASSUME UdpInv, NEW i \in Dgram!Slots, dns' \in Queries,
         usocks' = [usocks EXCEPT ![i].used = FALSE, ![i].bound = FALSE]
  PROVE  UdpInv'
<1>1. usocks \in [Dgram!Slots -> Socket] /\ SockOK(usocks[i])
  BY Zenon DEF UdpInv
<1>2. usocks' = [usocks EXCEPT ![i] = Closed(usocks[i])]
  BY <1>1, Zenon DEF Closed
<1> QED BY <1>1, <1>2, ClosedOK, Replaced, Zenon DEF MayReplace

LEMMA DnsStep ==
  ASSUME UdpInv, NEW q \in Resolvers, NEW port \in DnsPorts, Dgram!dns_begin(q, port)
  PROVE  UdpInv'
<1> DEFINE i == Dgram!First(Dgram!FreeSlots)
           d == [at |-> "wait", slot |-> i]
           r == Dgram!Borrowed(usocks[i], port)
<1>1. i \in Dgram!Slots
  BY FirstSlot, Zenon DEF Dgram!dns_begin, Dgram!FreeSlots
<1>2. /\ usocks' = [usocks EXCEPT ![i] = r] /\ dns' = [dns EXCEPT ![q] = d]
      /\ Dgram!udp_sock_by_port(port) = {}
  BY <1>1, Zenon DEF Dgram!dns_begin
<1>2a. d \in Query
  BY <1>1 DEF Query
<1>2b. dns' \in Queries
  BY <1>2, <1>2a, Zenon DEF UdpInv, Queries
<1>3. SockOK(r) /\ r.lport = port
  BY EmptiedOK, Zenon DEF AnyPort, Dgram!Borrowed
<1> HIDE DEF i, r
<1>4. MayReplace(i, r)
  BY <1>1, <1>2, <1>3, FreePort, Zenon
<1> QED BY <1>1, <1>2, <1>2b, <1>4, Replaced, Zenon

\* A length field that counts the header: neither the data nor n wrap.
LEMMA NoWrap ==
  ASSUME NEW plen \in Lengths, ~(plen < UdpHeader), NEW n \in Nat, n <= UDP_RXBUF
  PROVE  /\ Dgram!Data(plen) \in Nat
         /\ (n + Dgram!Entry(Dgram!Data(plen))) % 2 ^ LenBits = n + Dgram!Entry(Dgram!Data(plen))
         /\ (n + Header + Dgram!Data(plen)) % 2 ^ LenBits = n + Dgram!Entry(Dgram!Data(plen))
<1> DEFINE M == 2 ^ LenBits
<1>1. /\ M \in Nat /\ M > 0 /\ plen \in Nat /\ Header \in Nat /\ UdpHeader \in Nat
      /\ UDP_RXBUF \in Nat /\ UDP_RXBUF + Header + plen < M
  BY DatagramsAssumption
<1> HIDE DEF M
<1>2. \A a \in Nat : a < M => a % M = a
  BY <1>1
<1>3. plen - UdpHeader \in Nat /\ plen - UdpHeader < M
  BY <1>1
<1>4. Dgram!Data(plen) = plen - UdpHeader
  BY <1>2, <1>3, Zenon DEF Dgram!Data, M
<1>5. /\ n + (Header + (plen - UdpHeader)) \in Nat /\ n + (Header + (plen - UdpHeader)) < M
      /\ n + Header + (plen - UdpHeader) = n + (Header + (plen - UdpHeader))
  BY <1>1, <1>3
<1>6. (n + (Header + (plen - UdpHeader))) % M = n + (Header + (plen - UdpHeader))
  BY <1>2, <1>5, Zenon
<1> QED BY <1>3, <1>4, <1>5, <1>6, Zenon DEF Dgram!Entry, M

LEMMA HandleStep ==
  ASSUME UdpInv, NEW port \in AnyPort, NEW plen \in Lengths, Dgram!udp_handle(port, plen)
  PROVE  UdpInv'
<1> DEFINE i == Dgram!First(Dgram!udp_sock_by_port(port))
           len == Dgram!Data(plen)
           e == [port |-> port, len |-> len]
<1>a. /\ Dgram!udp_sock_by_port(port) # {} /\ Dgram!Fits(usocks[i], len) /\ dns' = dns
      /\ \/ /\ ~Dgram!Spoils(i, plen)
            /\ usocks' = [usocks EXCEPT ![i].rxb = Append(@, e),
                                        ![i].n = (@ + Dgram!Entry(len)) % 2 ^ LenBits]
         \/ usocks' = usocks
  BY Zenon DEF Dgram!udp_handle
<1>b. CASE usocks' = usocks
  BY <1>a, <1>b, UdpSame, Zenon DEF UdpInv
<1>c. SUFFICES ASSUME ~Dgram!Spoils(i, plen),
                      usocks' = [usocks EXCEPT ![i].rxb = Append(@, e),
                                               ![i].n = (@ + Dgram!Entry(len)) % 2 ^ LenBits]
               PROVE  UdpInv'
  BY <1>a, <1>b, Zenon
<1>d. ~(plen < UdpHeader)
  BY <1>c, Zenon DEF Dgram!Spoils
<1>1. i \in Dgram!Slots /\ i \in Dgram!udp_sock_by_port(port)
  BY <1>a, FirstSlot, Zenon DEF Dgram!udp_sock_by_port
<1> HIDE DEF i, len
<1> DEFINE s == usocks[i]
           r == [s EXCEPT !.rxb = Append(@, e), !.n = @ + Dgram!Entry(len)]
<1>2. usocks \in [Dgram!Slots -> Socket] /\ s \in Socket /\ SockOK(s)
  BY <1>1, Zenon DEF UdpInv
<1>e. s.rxb \in Seq(Datagram) /\ Sums(s.rxb, s.n) /\ s.n <= UDP_RXBUF
  BY <1>2, Zenon DEF SockOK, Socket
<1>f. s.n \in Nat
  BY <1>e, SumsNat, Zenon
<1>g. /\ len \in Nat /\ (s.n + Dgram!Entry(len)) % 2 ^ LenBits = s.n + Dgram!Entry(len)
      /\ (s.n + Header + len) % 2 ^ LenBits = s.n + Dgram!Entry(len)
  BY <1>d, <1>e, <1>f, NoWrap, Zenon DEF len
<1>3. usocks' = [usocks EXCEPT ![i] = r]
  BY <1>c, <1>1, <1>2, <1>g, Zenon
<1>5. s.bound /\ s.lport = port
  BY <1>1, Zenon DEF Dgram!udp_sock_by_port
<1>6. e \in Datagram /\ e.port = port /\ e.len = len
  BY <1>g DEF Datagram
<1>7. Dgram!Entry(len) \in Nat /\ s.n + Dgram!Entry(len) <= UDP_RXBUF
  BY <1>a, <1>6, <1>g, EntryType, Zenon DEF Dgram!Fits
<1>8. /\ s.rxb \in Seq(Datagram) /\ s.n \in Int /\ Sums(s.rxb, s.n) /\ s.used
      /\ \A k \in DOMAIN s.rxb : s.rxb[k].port = port
  BY <1>2, <1>5, Zenon DEF SockOK, Socket
<1> HIDE DEF s, e
<1> DEFINE q == Append(s.rxb, e)
           m == s.n + Dgram!Entry(len)
<1>9. q \in Seq(Datagram) /\ m \in Int
  BY <1>6, <1>7, <1>8
<1>10. Sums(q, m)
  BY <1>6, <1>8, SumsAppend, Zenon
<1>11. \A k \in DOMAIN q : q[k].port = port
  BY <1>6, <1>8
<1> HIDE DEF q, m
<1>12. r \in Socket
  BY <1>2, <1>9, Zenon DEF Socket, q, m
<1>13. r.used = s.used /\ r.bound = s.bound /\ r.lport = s.lport /\ r.n = m /\ r.rxb = q
  BY <1>2, Zenon DEF Socket, q, m
<1>14. m <= UDP_RXBUF
  BY <1>7, Zenon DEF m
<1> HIDE DEF r
<1>15. SockOK(r)
  BY <1>5, <1>8, <1>10, <1>11, <1>12, <1>13, <1>14, Zenon DEF SockOK
<1>16. \A j \in Dgram!Slots \ {i} : usocks[j].bound => usocks[j].lport # r.lport
  BY <1>1, <1>5, <1>13, Zenon DEF UdpInv, Dgram!PortsDistinct, s
<1> QED BY <1>a, <1>1, <1>3, <1>15, <1>16, Replaced, Zenon DEF MayReplace, UdpInv

\* The first datagram of a bound socket leaves.
LEMMA RecvStep ==
  ASSUME UdpInv, NEW i \in Dgram!Slots, usocks[i].bound, usocks[i].n # 0,
         usocks' = Dgram!Taken(i), dns' \in Queries
  PROVE  UdpInv'
<1> DEFINE s == usocks[i]
           q == Tail(s.rxb)
           m == s.n - Dgram!Entry(Head(s.rxb).len)
           r == [s EXCEPT !.rxb = q, !.n = m]
<1>1. s.bound /\ s.n # 0
  BY Zenon
<1>2. usocks \in [Dgram!Slots -> Socket] /\ s \in Socket /\ SockOK(s)
  BY Zenon DEF UdpInv
<1>3. usocks' = [usocks EXCEPT ![i] = r]
  BY <1>2, Zenon DEF Dgram!Taken
<1>4. /\ s.rxb \in Seq(Datagram) /\ s.n \in Int /\ Sums(s.rxb, s.n) /\ s.used
      /\ s.n <= UDP_RXBUF /\ \A k \in DOMAIN s.rxb : s.rxb[k].port = s.lport
  BY <1>1, <1>2, Zenon DEF SockOK, Socket
<1>5. s.rxb # <<>>
  BY <1>1, <1>4, SumsEmpty, Zenon
<1> HIDE DEF s
<1>6. Sums(q, m)
  BY <1>4, <1>5, SumsTail, Zenon
<1>7. Head(s.rxb) \in Datagram /\ q \in Seq(Datagram) /\ \A k \in DOMAIN q : q[k].port = s.lport
  BY <1>4, <1>5
<1>8. Dgram!Entry(Head(s.rxb).len) \in Nat
  BY <1>7, EntryType, Zenon
<1>9. m \in Int /\ m <= UDP_RXBUF
  <2> DEFINE x == Dgram!Entry(Head(s.rxb).len)
  <2>1. x \in Nat /\ UDP_RXBUF \in Nat
    BY <1>8, DatagramsAssumption, Zenon
  <2> HIDE DEF x
  <2>2. s.n - x \in Int /\ s.n - x <= UDP_RXBUF
    BY <1>4, <2>1
  <2> QED BY <2>2, Zenon DEF x
<1> HIDE DEF q, m
<1>10. r \in Socket
  BY <1>2, <1>7, <1>9, Zenon DEF Socket
<1>11. r.used = s.used /\ r.bound = s.bound /\ r.lport = s.lport /\ r.n = m /\ r.rxb = q
  BY <1>2, Zenon DEF Socket
<1> HIDE DEF r
<1>12. SockOK(r)
  BY <1>4, <1>6, <1>7, <1>9, <1>10, <1>11, Zenon DEF SockOK
<1>13. \A j \in Dgram!Slots \ {i} : usocks[j].bound => usocks[j].lport # r.lport
  BY <1>1, <1>11, Zenon DEF UdpInv, Dgram!PortsDistinct, s
<1> QED BY <1>3, <1>12, <1>13, Replaced, Zenon DEF MayReplace

\* Only the place of a resolution changes.
LEMMA PlaceStep ==
  ASSUME UdpInv, NEW q \in Resolvers, NEW a \in {"wait", "moved"},
         dns' = [dns EXCEPT ![q].at = a]
  PROVE  dns' \in Queries
<1> DEFINE d == [dns[q] EXCEPT !.at = a]
<1>1. dns[q] \in Query /\ dns' = [dns EXCEPT ![q] = d] /\ dns \in Queries
  BY Zenon DEF UdpInv, Queries
<1>2. d \in Query
  BY <1>1, Zenon DEF Query
<1> QED BY <1>1, <1>2, Zenon DEF Queries

LEMMA UdpNext == UdpInv /\ [Dgram!Next]_(Dgram!vars) => UdpInv'
<1> SUFFICES ASSUME UdpInv, [Dgram!Next]_(Dgram!vars) PROVE UdpInv'
  BY Zenon
<1>1. CASE Dgram!net_socket_open
  BY <1>1, OpenStep, Zenon
<1>2. ASSUME NEW i \in Dgram!Slots, NEW port \in UdpPorts, Dgram!net_socket_bind(i, port)
      PROVE  UdpInv'
  BY <1>2, BindStep, Zenon
<1>3. ASSUME NEW i \in Dgram!Slots, Dgram!net_socket_close(i) PROVE UdpInv'
  BY <1>3, CloseStep, Zenon DEF Dgram!net_socket_close, UdpInv
<1>4. ASSUME NEW i \in Dgram!Slots, Dgram!udp_recvfrom(i) PROVE UdpInv'
  BY <1>4, RecvStep, Zenon DEF Dgram!udp_recvfrom, UdpInv
<1>5. ASSUME NEW r \in Resolvers, NEW port \in DnsPorts, Dgram!dns_begin(r, port) PROVE UdpInv'
  BY <1>5, DnsStep, Zenon
<1>6. ASSUME NEW r \in Resolvers, Dgram!dns_end(r) PROVE UdpInv'
  <2>1. dns[r].slot \in Dgram!Slots /\ dns \in Queries
    BY Zenon DEF UdpInv, Queries, Query
  <2>2. Dgram!NoQuery \in Query
    BY DatagramsAssumption DEF Dgram!NoQuery, Query, Dgram!Slots
  <2>3. dns' \in Queries
    BY <1>6, <2>1, <2>2, Zenon DEF Dgram!dns_end, Queries
  <2> QED BY <1>6, <2>1, <2>3, CloseStep, Zenon DEF Dgram!dns_end
<1>7. ASSUME NEW port \in AnyPort, NEW plen \in Lengths, Dgram!udp_handle(port, plen) PROVE UdpInv'
  BY <1>7, HandleStep, Zenon
<1>8. ASSUME NEW r \in Resolvers, Dgram!dns_recvfrom(r) PROVE UdpInv'
  <2> DEFINE found == Dgram!udp_sock_by_port(usocks[dns[r].slot].lport)
             i == Dgram!First(found)
  <2>1. found # {} /\ usocks[i].n # 0 /\ usocks' = Dgram!Taken(i)
        /\ dns' = [dns EXCEPT ![r].at = "moved"]
    BY <1>8, Zenon DEF Dgram!dns_recvfrom
  <2>2. i \in Dgram!Slots /\ i \in found
    BY <2>1, FirstSlot, Zenon DEF Dgram!udp_sock_by_port
  <2>3. usocks[i].bound
    BY <2>2, Zenon DEF Dgram!udp_sock_by_port
  <2> HIDE DEF i, found
  <2>4. dns' \in Queries
    BY <2>1, PlaceStep, Zenon
  <2> QED BY <2>1, <2>2, <2>3, <2>4, RecvStep, Zenon
<1>9. ASSUME NEW r \in Resolvers, Dgram!dns_recvfrom_head(r) PROVE UdpInv'
  <2>1. dns' \in Queries /\ usocks' = usocks
    BY <1>9, PlaceStep, Zenon DEF Dgram!dns_recvfrom_head
  <2> QED BY <2>1, UdpSame, Zenon
<1>10. CASE UNCHANGED Dgram!vars
  <2>1. usocks' = usocks /\ dns' \in Queries
    BY <1>10, Zenon DEF Dgram!vars, UdpInv
  <2> QED BY <2>1, UdpSame, Zenon
<1> QED BY <1>1, <1>2, <1>3, <1>4, <1>5, <1>6, <1>7, <1>8, <1>9, <1>10, Zenon DEF Dgram!Next, AnyPort

\* A UDP port has one socket, what a bound socket holds was sent to its port,
\* and its queue fits its buffer with n the bytes in it (udp_handle(),
\* udp_recvfrom(), net_socket_bind(), net_dns_resolve()), for any number of
\* slots and resolutions and any size of the buffers; until a datagram is queued
\* that is shorter than its header, or inside the udp_recvfrom() of a resolution.
THEOREM DatagramsOwned == Dgram!Spec => []OwnDatagrams
<1>1. Dgram!Init => UdpInv
  BY UdpInit
<1>2. UdpInv /\ [Dgram!Next]_(Dgram!vars) => UdpInv'
  BY UdpNext
<1>3. UdpInv => OwnDatagrams
  BY UdpGood
<1> QED BY <1>1, <1>2, <1>3, PTL DEF Dgram!Spec

=============================================================================
