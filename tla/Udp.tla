-------------------------------- MODULE Udp --------------------------------
(***************************************************************************)
(* The UDP socket table of net/net_udp.c, with the socket operations of    *)
(* net/net.c and the slot that net_dns_resolve() borrows.                  *)
(*                                                                         *)
(* A datagram is its port and its length; the receive buffer is the        *)
(* sequence of datagrams it holds, and n counts the bytes of their entries *)
(* (a header of 4 + 4 + 2 bytes and the data).                             *)
(*                                                                         *)
(* System calls and the timer interrupt run with interrupts off.  A        *)
(* resolution runs with interrupts on: several may be under way, and a     *)
(* datagram may come inside its udp_recvfrom().  udp_handle() is one step: *)
(* the poll that calls it is taken not to be re-entered.                   *)
(***************************************************************************)
EXTENDS Integers, Sequences

CONSTANTS
  UDP_SLOTS, UDP_RXBUF,
  Header,      \* the 10 bytes before the data of an entry
  UdpHeader,   \* the 8 bytes that a datagram's length field counts besides its data
  LenBits,     \* lengths are unsigned numbers of this many bits
  Ports,       \* the ports that programs bind
  DnsPorts,    \* the ephemeral ports of the resolver
  Resolvers,   \* the processes that call net_dns_resolve()
  Lengths      \* the length fields of datagrams

Slots == 0 .. UDP_SLOTS - 1
EchoPort == 7

VARIABLES
  socks,    \* udp_socks[]
  dns,      \* the resolution of each process: where it is, and its slot
  broken    \* the bytes of a queue are lost (Spoils)

vars == <<socks, dns, broken>>

NoQuery == [at |-> "out", slot |-> 0]
First(S) == CHOOSE i \in S : \A j \in S : i <= j

\* A slot with an empty queue: head = n = 0.
Emptied(used, bound, owned, lport) ==
  [used |-> used, bound |-> bound, owned |-> owned, lport |-> lport, n |-> 0, rxb |-> <<>>]

\* net_init(): udp_open(7).
Init ==
  /\ socks = [i \in Slots |->
       IF i = 0 THEN Emptied(TRUE, TRUE, FALSE, EchoPort) ELSE Emptied(FALSE, FALSE, FALSE, 0)]
  /\ dns = [r \in Resolvers |-> NoQuery]
  /\ broken = FALSE

udp_sock_by_port(port) ==
  {i \in Slots : socks[i].used /\ socks[i].bound /\ socks[i].lport = port}
FreeSlots == {i \in Slots : ~socks[i].used}
Entry(len) == Header + len

\* net_socket_open(2).
net_socket_open ==
  /\ FreeSlots # {}
  /\ socks' = [socks EXCEPT ![First(FreeSlots)] = Emptied(TRUE, FALSE, TRUE, 0)]
  /\ UNCHANGED <<dns, broken>>

\* -EADDRINUSE when another socket has the port.
MayBind(i, port) == socks[i].owned /\ udp_sock_by_port(port) = {}

net_socket_bind(i, port) ==
  /\ socks[i].used /\ ~socks[i].bound /\ MayBind(i, port)
  /\ socks' = [socks EXCEPT ![i].bound = TRUE, ![i].lport = port, ![i].n = 0, ![i].rxb = <<>>]
  /\ UNCHANGED <<dns, broken>>

net_socket_close(i) ==
  /\ socks[i].used /\ socks[i].owned
  /\ socks' = [socks EXCEPT ![i].used = FALSE, ![i].bound = FALSE]
  /\ UNCHANGED <<dns, broken>>

Borrowed_Dirty(s, port) == [s EXCEPT !.used = TRUE, !.bound = TRUE, !.owned = FALSE, !.lport = port]

\* The slot s as the resolver sets it up.
Borrowed(s, port) == Emptied(TRUE, TRUE, FALSE, port)

\* net_dns_resolve() takes a free slot and a port nobody has, before its `sti' ...
dns_begin(r, port) ==
  LET i == First(FreeSlots)
  IN /\ dns[r].at = "out" /\ FreeSlots # {} /\ udp_sock_by_port(port) = {}
     /\ dns' = [dns EXCEPT ![r] = [at |-> "wait", slot |-> i]]
     /\ socks' = [socks EXCEPT ![i] = Borrowed(@, port)]
     /\ UNCHANGED broken

\* ... and gives the slot back, after its `cli'.
dns_end(r) ==
  /\ dns[r].at = "wait"
  /\ socks' = [socks EXCEPT ![dns[r].slot].used = FALSE, ![dns[r].slot].bound = FALSE]
  /\ dns' = [dns EXCEPT ![r] = NoQuery]
  /\ UNCHANGED broken

\* The data of a datagram, in unsigned arithmetic.
Data(plen) == (plen - UdpHeader) % 2 ^ LenBits

\* The test of udp_handle(): a datagram is queued whole or dropped.
Fits(s, len) == (s.n + Header + len) % 2 ^ LenBits <= UDP_RXBUF

\* The bytes of the queue are lost: the length field is smaller than the header
\* it counts, so that the data seem to be almost 2 ^ LenBits bytes long; or
\* udp_recvfrom() of a resolution has moved the queue up, but not yet head.
Spoils(i, plen) ==
  \/ plen < UdpHeader
  \/ \E r \in Resolvers : dns[r] = [at |-> "moved", slot |-> i]

udp_handle(port, plen) ==
  LET i == First(udp_sock_by_port(port))
      len == Data(plen)
  IN /\ udp_sock_by_port(port) # {}
     /\ Fits(socks[i], len)
     /\ \/ /\ ~Spoils(i, plen)
           /\ socks' = [socks EXCEPT ![i].rxb = Append(@, [port |-> port, len |-> len]),
                                     ![i].n = (@ + Entry(len)) % 2 ^ LenBits]
           /\ UNCHANGED broken
        \/ Spoils(i, plen) /\ broken' = TRUE /\ UNCHANGED socks
     /\ UNCHANGED dns

\* The first datagram leaves, however much of it was read.
Taken(i) == [socks EXCEPT ![i].rxb = Tail(@), ![i].n = @ - Entry(Head(socks[i].rxb).len)]

\* udp_recvfrom() of a program, which owns the slot.
udp_recvfrom(i) ==
  /\ socks[i].used /\ socks[i].bound /\ socks[i].owned /\ socks[i].n # 0
  /\ socks' = Taken(i)
  /\ UNCHANGED <<dns, broken>>

\* udp_recvfrom() of a resolution, which finds its slot by the port: the queue
\* moves up and n is reduced ...
dns_recvfrom(r) ==
  LET found == udp_sock_by_port(socks[dns[r].slot].lport)
      i == First(found)
  IN /\ dns[r].at = "wait" /\ found # {} /\ socks[i].n # 0
     /\ socks' = Taken(i)
     /\ dns' = [dns EXCEPT ![r].at = "moved"]
     /\ UNCHANGED broken

\* ... and then head follows.
dns_recvfrom_head(r) ==
  /\ dns[r].at = "moved"
  /\ dns' = [dns EXCEPT ![r].at = "wait"]
  /\ UNCHANGED <<socks, broken>>

\* Nothing is said of what follows when a queue is broken.
Next ==
  /\ ~broken
  /\ \/ net_socket_open
     \/ \E i \in Slots, port \in Ports : net_socket_bind(i, port)
     \/ \E i \in Slots : net_socket_close(i) \/ udp_recvfrom(i)
     \/ \E r \in Resolvers :
          \/ \E port \in DnsPorts : dns_begin(r, port)
          \/ dns_recvfrom(r) \/ dns_recvfrom_head(r) \/ dns_end(r)
     \/ \E port \in Ports \cup DnsPorts \cup {EchoPort}, plen \in Lengths : udp_handle(port, plen)

Spec == Init /\ [][Next]_vars

----------------------------------------------------------------------------

\* A port has one socket: net_socket_bind() refuses a taken port and the
\* resolver skips it, so that a datagram has one destination.
PortsDistinct ==
  \A i, j \in Slots :
    socks[i].bound /\ socks[j].bound /\ socks[i].lport = socks[j].lport => i = j

\* A socket never hands out what was sent to an earlier user of its slot:
\* whatever a bound socket holds was addressed to its own port.
OwnDatagrams ==
  \A i \in Slots : socks[i].bound =>
    \A k \in DOMAIN socks[i].rxb : socks[i].rxb[k].port = socks[i].lport

\* The bytes of the entries of a queue.
TotalOf(q) ==
  LET total[k \in 0 .. Len(q)] == IF k = 0 THEN 0 ELSE total[k - 1] + Entry(q[k].len)
  IN  total[Len(q)]

\* The entries of the queue never exceed its UDP_RXBUF bytes, headers
\* included, and n is their sum.
QueueFits == \A i \in Slots : socks[i].n = TotalOf(socks[i].rxb) /\ socks[i].n <= UDP_RXBUF

=============================================================================
