------------------------------ MODULE Neighbours ----------------------------
(***************************************************************************)
(* The ARP cache (Arp) for any hosts, any size of the table and any        *)
(* timeouts.                                                               *)
(***************************************************************************)
EXTENDS Integers, Sequences

CONSTANTS Ips, Macs, ARP_CACHE_MAX, ARP_REACH_TIMEOUT, ARP_PROBE_TIMEOUT

ASSUME NeighboursAssumption ==
  /\ Macs # {} /\ ARP_CACHE_MAX \in Nat \ {0}
  /\ ARP_REACH_TIMEOUT \in Nat /\ ARP_PROBE_TIMEOUT \in Nat

VARIABLES cache, gate, silent, heard, asked

Neigh == INSTANCE Arp

\* The ARP cache answers with what it heard: an address has one entry at most,
\* with the MAC its host announced last, in a full table too.
AnswersHeard == Neigh!AnswersHeard

=============================================================================
