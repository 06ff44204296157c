-------------------------------- MODULE Arp --------------------------------
(***************************************************************************)
(* The ARP cache of net/net_arp.c: resolution, probing of stale entries,   *)
(* confirmation by any ARP packet, replacement and ageing.                 *)
(*                                                                         *)
(* The unit of time is ARP_RETRANS_TICKS = ARP_TICK_INTERVAL (1 s); a tick *)
(* stamp is the time since, capped where no comparison tells more.  Hosts  *)
(* may change their MAC or fall silent; a frame may fail to be submitted.  *)
(* A packet is handled in one step, as long as the poll of the card is not *)
(* entered again while it runs (see TcpTable).                             *)
(***************************************************************************)
EXTENDS Integers, Sequences

CONSTANTS
  Ips, Macs,
  ARP_CACHE_MAX,
  ARP_REACH_TIMEOUT,   \* in units of ARP_RETRANS_TICKS
  ARP_PROBE_TIMEOUT    \* likewise

ARP_RETRANS == 1
ARP_PROBE_MAX == 3
MinOf(a, b) == IF a < b THEN a ELSE b
AgeCap == IF ARP_REACH_TIMEOUT > ARP_PROBE_TIMEOUT THEN ARP_REACH_TIMEOUT ELSE ARP_PROBE_TIMEOUT

VARIABLES
  cache,      \* arp_cache[0 .. arp_cache_n - 1]
  gate,       \* arp_req_gate
  silent,     \* hosts that send nothing any more
  heard,      \* the MAC each host last announced
  asked       \* requests submitted for an address since it was last heard

vars == <<cache, gate, silent, heard, asked>>

Init ==
  /\ cache = <<>>
  /\ gate = AgeCap
  /\ silent = {}
  /\ heard = [ip \in Ips |-> CHOOSE mac \in Macs : TRUE]
  /\ asked = [ip \in Ips |-> 0]

\* arp_cache_fill().
Fill(ip, mac) == [ip |-> ip, mac |-> mac, seen |-> 0, req |-> 0, probes |-> 0]

At(ip) == {i \in DOMAIN cache : cache[i].ip = ip}
First(S) == CHOOSE i \in S : \A j \in S : i <= j
arp_lookup(ip) == First(At(ip))
Stale(e) == e.seen >= ARP_REACH_TIMEOUT

\* The slot a full table gives up: the first stale one, else the oldest.
Victim ==
  LET stale == {i \in DOMAIN cache : Stale(cache[i])}
      oldest == {i \in DOMAIN cache : \A j \in DOMAIN cache : cache[j].seen <= cache[i].seen}
  IN  First(IF stale # {} THEN stale ELSE oldest)

Confirmed_OldMac(e, mac) == [e EXCEPT !.seen = 0, !.probes = 0]

\* Any packet of the host makes its entry fresh again.
Confirmed(e, mac) == [e EXCEPT !.mac = mac, !.seen = 0, !.probes = 0]

arp_cache_add(ip, mac) ==
  IF At(ip) # {} THEN [cache EXCEPT ![arp_lookup(ip)] = Confirmed(@, mac)]
  ELSE IF Len(cache) < ARP_CACHE_MAX THEN Append(cache, Fill(ip, mac))
  ELSE [cache EXCEPT ![Victim] = Fill(ip, mac)]

\* An ARP packet from ip, a request or a reply, possibly with a new MAC.
arp_handle(ip, mac) ==
  /\ ip \notin silent
  /\ cache' = arp_cache_add(ip, mac)
  /\ heard' = [heard EXCEPT ![ip] = mac]
  /\ asked' = [asked EXCEPT ![ip] = 0]
  /\ UNCHANGED <<gate, silent>>

Asked(ip) == [asked EXCEPT ![ip] = MinOf(@ + 1, ARP_PROBE_MAX)]

\* arp_resolve() asks again for a stale entry, ARP_PROBE_MAX times.
NeedsProbe(e) == Stale(e) /\ e.probes < ARP_PROBE_MAX

\* arp_resolve() with a hit answers with the MAC of the entry, stale or not;
\* arp_request() is throttled by the entry, and counts only when submitted.
arp_resolve_hit(ip, submitted) ==
  /\ At(ip) # {}
  /\ LET i == arp_lookup(ip)
         sent == NeedsProbe(cache[i]) /\ cache[i].req >= ARP_RETRANS /\ submitted
     IN  /\ cache' = IF sent THEN [cache EXCEPT ![i].req = 0, ![i].probes = @ + 1] ELSE cache
         /\ asked' = IF sent THEN Asked(ip) ELSE asked
  /\ UNCHANGED <<gate, silent, heard>>

\* A miss sends a request too, throttled by the global gate, and fails.
arp_resolve_miss(ip, submitted) ==
  /\ At(ip) = {}
  /\ gate >= ARP_RETRANS /\ submitted
  /\ gate' = 0
  /\ asked' = Asked(ip)
  /\ UNCHANGED <<cache, silent, heard>>

Dead_OffByOne(e) == Stale(e) /\ e.probes > ARP_PROBE_MAX /\ e.req >= ARP_PROBE_TIMEOUT

Dead(e) == Stale(e) /\ e.probes >= ARP_PROBE_MAX /\ e.req >= ARP_PROBE_TIMEOUT

Older(age) == MinOf(age + 1, AgeCap)

arp_cache_del(c, idx) == [i \in 1 .. Len(c) - 1 |-> IF i < idx THEN c[i] ELSE c[i + 1]]

\* The loop of arp_tick() over the entries, from the last one to the first.
Swept(c) ==
  LET after[k \in 0 .. Len(c)] ==
        IF k = 0 THEN c
        ELSE LET t == after[k - 1]
                 i == Len(c) - (k - 1)
             IN  IF Dead(t[i]) THEN arp_cache_del(t, i) ELSE t
  IN  after[Len(c)]

\* A second passes and net_poll() runs arp_tick().
arp_tick ==
  /\ cache' = Swept([i \in DOMAIN cache |-> [cache[i] EXCEPT !.seen = Older(@), !.req = Older(@)]])
  /\ gate' = Older(gate)
  /\ UNCHANGED <<silent, heard, asked>>

FallSilent(ip) ==
  /\ silent' = silent \cup {ip}
  /\ UNCHANGED <<cache, gate, heard, asked>>

Next ==
  \/ \E ip \in Ips, mac \in Macs : arp_handle(ip, mac)
  \/ \E ip \in Ips, submitted \in BOOLEAN :
       arp_resolve_hit(ip, submitted) \/ arp_resolve_miss(ip, submitted)
  \/ arp_tick
  \/ \E ip \in Ips : FallSilent(ip)

Spec == Init /\ [][Next]_vars

\* The timer interrupt keeps calling net_poll(); a sender of ip keeps resolving
\* it, and its requests can be submitted.
Resolving(ip) == arp_resolve_hit(ip, TRUE)
FairSpec == Spec /\ WF_vars(arp_tick) /\ \A ip \in Ips : WF_vars(Resolving(ip))

----------------------------------------------------------------------------

\* The cache answers with what it heard: an address has one entry at most
\* (arp_cache_add(), arp_cache_del()), with the MAC its host announced last.
AnswersHeard ==
  \A i \in DOMAIN cache :
    /\ cache[i].mac = heard[cache[i].ip]
    /\ \A j \in DOMAIN cache : cache[j].ip = cache[i].ip => j = i

\* arp_tick() drops an entry only when ARP_PROBE_MAX requests went out since
\* the host was last heard (probes is cleared by every confirmation).
DropsSilent ==
  [][\A ip \in Ips :
       arp_tick /\ At(ip) # {} /\ At(ip)' = {} => asked[ip] >= ARP_PROBE_MAX]_vars

\* An address that senders keep resolving leaves the cache once its host has
\* fallen silent: probing ends and arp_tick() drops the entry.
SilentForgotten(ip) == ip \in silent ~> At(ip) = {}

=============================================================================
