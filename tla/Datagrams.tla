------------------------------ MODULE Datagrams -----------------------------
(***************************************************************************)
(* The UDP sockets (Udp) for any number of slots and ports and any size of *)
(* the receive buffers.                                                    *)
(***************************************************************************)
EXTENDS Integers

CONSTANTS
  UDP_SLOTS, UDP_RXBUF, Header, UdpHeader, LenBits, UdpPorts, DnsPorts, Resolvers, Lengths

\* An entry is never empty: it has a header.  A queue and an entry together are
\* smaller than the largest number that a length holds.
ASSUME DatagramsAssumption ==
  /\ UDP_SLOTS \in Nat \ {0} /\ UDP_RXBUF \in Nat /\ Header \in Nat \ {0} /\ UdpHeader \in Nat
  /\ 2 ^ LenBits \in Nat \ {0} /\ Lengths \subseteq Nat
  /\ \A plen \in Lengths : UDP_RXBUF + Header + plen < 2 ^ LenBits

VARIABLES usocks, dns, broken

Dgram == INSTANCE Udp WITH Ports <- UdpPorts, socks <- usocks

\* A UDP port has one socket, the resolvers' and the kernel's included; a socket
\* never hands out what was sent to an earlier user of its slot; and the entries
\* of its queue, headers included, fit its buffer, with n their sum.  This is so
\* until udp_handle() queues a datagram whose length field is below the 8 bytes of
\* its header, or one inside the udp_recvfrom() of net_dns_resolve().
OwnDatagrams == broken \/ (Dgram!PortsDistinct /\ Dgram!OwnDatagrams /\ Dgram!QueueFits)

=============================================================================
