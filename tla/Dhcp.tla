-------------------------------- MODULE Dhcp --------------------------------
(***************************************************************************)
(* The DHCP client of net/net_dhcp.c: acquiring a lease, renewing and      *)
(* rebinding it, its expiry, NAK, and the static fallback.                 *)
(*                                                                         *)
(* The unit of time is DHCP_TICKS_PER_SEC ticks.  A deadline is kept as    *)
(* its distance from `ticks', a number of TickBits bits.  A reply carries  *)
(* the current dhcp_xid (any other is ignored), and may be lost, repeated  *)
(* or late: it arrives at any time or never.  It is handled in one step,   *)
(* as long as the poll of the card is not entered again while it runs (see *)
(* TcpTable).                                                              *)
(***************************************************************************)
EXTENDS Integers

CONSTANTS
  TickBits,   \* the width of ticks (32), at this module's unit
  SecsCap,    \* the clamp of dhcp_secs_to_ticks()
  Leases      \* the options 51, 58 and 59 that servers send, 0 when missing

Wrap == 2 ^ TickBits
FirstWait == 2          \* DHCP_RETRY_BASE_SECS
WaitCap == 30           \* DHCP_RETRY_CAP_SECS
MaxRetries == 6
Forever == -1

VARIABLES
  dhcp,   \* the static variables of net_dhcp.c, and where g_ip comes from
  left    \* the time the server's grant still has, Forever when it names none

vars == <<dhcp, left>>

\* dhcp_start().
Init ==
  /\ dhcp = [state |-> "WAIT_OFFER", ip |-> "none", retries |-> 0, wait |-> FirstWait,
             last |-> 0, timed |-> FALSE, t1 |-> 0, t2 |-> 0, expire |-> 0]
  /\ left = Forever

Due_Early(d) == d <= 1 \/ d > Wrap \div 2

\* (int32_t)(ticks - due) >= 0, for a deadline at distance d.
Due(d) == d = 0 \/ d > Wrap \div 2

MinOf(a, b) == IF a < b THEN a ELSE b
MaxOf(a, b) == IF a > b THEN a ELSE b
AtLeast1(n) == MaxOf(n, 1)
secs_to_ticks(s) == MinOf(s, SecsCap)

Clamped_Not(r1, r2, lt) == [t1 |-> AtLeast1(r1), t2 |-> AtLeast1(MinOf(r2, lt)), expire |-> lt]

\* T1 <= T2 <= expiry, whatever the server says.
Clamped(r1, r2, lt) ==
  LET c2 == AtLeast1(MinOf(r2, lt))
  IN  [t1 |-> AtLeast1(MinOf(r1, c2)), t2 |-> c2, expire |-> lt]

\* dhcp_arm_lease(): T1 and T2 default to 1/2 and 7/8 of the lease.
dhcp_arm_lease(s, l) ==
  IF l.lease = 0 THEN [s EXCEPT !.timed = FALSE]
  ELSE LET lt == AtLeast1(secs_to_ticks(l.lease))
           due == Clamped(IF l.t1 # 0 THEN secs_to_ticks(l.t1) ELSE lt \div 2,
                          IF l.t2 # 0 THEN secs_to_ticks(l.t2) ELSE lt - (lt \div 8), lt)
       IN  [s EXCEPT !.timed = TRUE, !.t1 = due.t1, !.t2 = due.t2, !.expire = due.expire]

\* dhcp_lease_expired(), and what a NAK does: no address, discover afresh.
Restarted(s) ==
  [s EXCEPT !.ip = "none", !.timed = FALSE, !.retries = 0,
            !.state = "WAIT_OFFER", !.wait = FirstWait, !.last = 0]

----------------------------------------------------------------------------
(* dhcp_handle().                                                          *)

dhcp_offer ==
  /\ dhcp.state = "WAIT_OFFER"
  /\ dhcp' = [dhcp EXCEPT !.state = "WAIT_ACK", !.wait = FirstWait, !.last = 0]
  /\ UNCHANGED left

dhcp_ack(l) ==
  /\ dhcp.state \in {"WAIT_ACK", "RENEWING", "REBINDING"}
  /\ LET armed == dhcp_arm_lease([dhcp EXCEPT !.ip = "leased"], l)
     IN  dhcp' = [armed EXCEPT !.state = IF armed.timed THEN "BOUND" ELSE "DONE"]
  /\ left' = IF l.lease = 0 THEN Forever ELSE l.lease

dhcp_nak ==
  /\ dhcp' = Restarted(dhcp)
  /\ left' = Forever

----------------------------------------------------------------------------
(* dhcp_tick().                                                            *)

dhcp_backoff_next(w) == MinOf((w * 7) \div 4, WaitCap)

Elapsed(s) == s.wait # 0 /\ s.last >= s.wait

Extending(s, state) ==
  [s EXCEPT !.state = state, !.retries = 0, !.wait = FirstWait, !.last = 0]

Retried(s) ==
  IF Elapsed(s) THEN [s EXCEPT !.wait = dhcp_backoff_next(@), !.last = 0] ELSE s

Phase(s) ==
  CASE s.state = "BOUND"     -> IF Due(s.t1) THEN Extending(s, "RENEWING") ELSE s
    [] s.state = "RENEWING"  -> IF Due(s.t2) THEN Extending(s, "REBINDING") ELSE Retried(s)
    [] s.state = "REBINDING" -> Retried(s)

Extended_RebindOnly(s) ==
  IF s.state \notin {"BOUND", "RENEWING", "REBINDING"} THEN s
  ELSE IF s.state = "REBINDING" /\ Due(s.expire) THEN Restarted(s)
  ELSE Phase(s)

\* The deadlines of a lease; its expiry comes before T1 and T2.
Extended(s) ==
  IF s.state \notin {"BOUND", "RENEWING", "REBINDING"} THEN s
  ELSE IF Due(s.expire) THEN Restarted(s)
  ELSE Phase(s)

Acquired_Endless(s) ==
  IF s.state \in {"WAIT_OFFER", "WAIT_ACK"} /\ Elapsed(s)
  THEN [s EXCEPT !.state = "WAIT_OFFER", !.wait = FirstWait, !.last = 0,
                 !.retries = MinOf(@ + 1, MaxRetries)]
  ELSE s

\* The first acquisition: after MaxRetries discoveries, a static address.
Acquired(s) ==
  IF s.state \in {"WAIT_OFFER", "WAIT_ACK"} /\ Elapsed(s)
  THEN IF s.retries >= MaxRetries
       THEN [s EXCEPT !.ip = "static", !.wait = 0, !.state = "DONE", !.timed = FALSE,
                      !.retries = @ + 1]
       ELSE [s EXCEPT !.state = "WAIT_OFFER", !.wait = FirstWait, !.last = 0,
                      !.retries = @ + 1]
  ELSE s

\* A second later.  Distances that no deadline uses are not kept.
Later(s) ==
  LET Next1(d) == IF s.timed THEN (d - 1) % Wrap ELSE 0
  IN  [s EXCEPT !.last = MinOf(@ + 1, WaitCap),
                !.t1 = Next1(@), !.t2 = Next1(@), !.expire = Next1(@)]

dhcp_tick ==
  /\ dhcp' = Acquired(Extended(Later(dhcp)))
  /\ left' = IF dhcp'.ip # "leased" THEN Forever
             ELSE IF left = Forever THEN Forever ELSE MaxOf(left - 1, 0)

Next == dhcp_offer \/ (\E l \in Leases : dhcp_ack(l)) \/ dhcp_nak \/ dhcp_tick

Spec == Init /\ [][Next]_vars

\* The timer interrupt keeps calling net_poll().
FairSpec == Spec /\ WF_vars(dhcp_tick)

----------------------------------------------------------------------------

\* An address is never used past its lease (dhcp_lease_expired() runs in the
\* tick in which the lease ends, from whichever state).
NotPastLease == dhcp.ip = "leased" => left # 0

\* T1, T2 and the expiry come in this order, whatever values the server sent
\* ("server values out of range are clamped", dhcp_arm_lease()).
DeadlinesOrdered ==
  dhcp.state = "BOUND" => dhcp.t1 <= dhcp.t2 /\ dhcp.t2 <= dhcp.expire

\* A tick takes a leased address away only when its lease ends.
LeaseHonoured ==
  [][dhcp_tick /\ dhcp.ip = "leased" /\ dhcp'.ip # "leased" => left = 1]_vars

\* The machine gets an address, a lease or the static one, unless servers
\* refuse it again and again.
GetsAddress ==
  []<><<dhcp_nak>>_vars \/ (dhcp.ip = "none" ~> dhcp.ip # "none")

=============================================================================
