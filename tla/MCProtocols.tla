----------------------------- MODULE MCProtocols ----------------------------
(***************************************************************************)
(* Small instances of the network protocols for TLC, with the fairness of  *)
(* their timers and peers, side by side as in MCServices: `part' names the *)
(* component that a behaviour runs, the others stay in their initial       *)
(* state.  The DHCP client and the ARP cache are the instances that this   *)
(* module extends.                                                         *)
(***************************************************************************)
EXTENDS Dhcp, Neighbours, FiniteSets, TLC

CONSTANTS None, clientA, clientB, macA, macB

\* No lease time; a very short one; the defaults; T2 before T1; T2 after the end.
Offer(lease, t1, t2) == [lease |-> lease, t1 |-> t1, t2 |-> t2]
SomeLeases == {Offer(0, 0, 0), Offer(1, 0, 0), Offer(8, 0, 0), Offer(12, 9, 3), Offer(4, 2, 9)}

VARIABLES
  part,
  state, lport, peer, accepted, backlog, attempts,      \* TcpTable
  type, conn, fds, sockets, strays,
  rstate, rcv_nxt, rxb, ooo, ooo_bytes, adv_win, read,  \* TcpReceive
  dconn, dpeer, dwritten,                               \* TcpSend, draining
  fconn, fpeer, fwritten                                \* TcpSend, closing

tableVars == <<state, lport, peer, accepted, backlog, attempts, type, conn, fds, sockets, strays>>
rxVars == <<rstate, rcv_nxt, rxb, ooo, ooo_bytes, adv_win, read>>
drainVars == <<dconn, dpeer, dwritten>>
finVars == <<fconn, fpeer, fwritten>>
arpVars == <<cache, gate, silent, heard, asked>>
allVars == <<part, vars, tableVars, rxVars, drainVars, finVars, arpVars>>

-----------------------------------------------------------------------------

\* Two clients, timers that retry.
Table == INSTANCE TcpTable WITH
  NumConns <- 3, NumFds <- 2, Ports <- {80}, KernelPort <- None,
  Peers <- {clientA, clientB}, R2Syn <- 1, R2Data <- 1, MaxSockets <- 2, MaxStrays <- 0

\* Sequence numbers wrap; an acknowledgement may fail to be sent.
Rx == INSTANCE TcpReceive WITH
  SeqBits <- 5, BufSize <- 4, Mss <- 2, Slots <- 1, Isn <- 28, StreamLen <- 8,
  MaxLen <- 2, Back <- 2, Sent <- {TRUE, FALSE}, state <- rstate

Drain == INSTANCE TcpSend WITH
  SeqBits <- 6, Isn <- 60, BufSize <- 4, Mss <- 2, R2Data <- 2, WriteLen <- 5,
  Windows <- {4}, Outcomes <- {"delivered", "lost"}, OldAcks <- 0, Closes <- {},
  PeerFins <- 0, conn <- dconn, peer <- dpeer, written <- dwritten

Fin == INSTANCE TcpSend WITH
  SeqBits <- 6, Isn <- 0, BufSize <- 4, Mss <- 2, R2Data <- 1, WriteLen <- 3,
  Windows <- {0, 4}, Outcomes <- {"delivered", "lost"}, OldAcks <- 0,
  Closes <- {"drained"}, PeerFins <- 1, conn <- fconn, peer <- fpeer, written <- fwritten

\* The hosts have one MAC each, and all fit the table.
Arp2 == INSTANCE Arp WITH
  Macs <- {macA}, ARP_CACHE_MAX <- 2

-----------------------------------------------------------------------------

AllInit ==
  /\ part \in {"table", "rx", "drain", "fin", "arp1", "arp2", "dhcp"}
  /\ Init /\ Table!Init /\ Rx!Init /\ Drain!Init /\ Fin!Init /\ Neigh!Init
  /\ part # "fin" => fconn.win = 4

\* What a step of a component leaves alone.
OnlyTable == UNCHANGED <<part, vars, rxVars, drainVars, finVars, arpVars>>
OnlyRx == UNCHANGED <<part, vars, tableVars, drainVars, finVars, arpVars>>
OnlyDrain == UNCHANGED <<part, vars, tableVars, rxVars, finVars, arpVars>>
OnlyFin == UNCHANGED <<part, vars, tableVars, rxVars, drainVars, arpVars>>
OnlyArp == UNCHANGED <<part, vars, tableVars, rxVars, drainVars, finVars>>
OnlyDhcp == UNCHANGED <<part, tableVars, rxVars, drainVars, finVars, arpVars>>

TableStep == part = "table" /\ Table!Next /\ OnlyTable
RxStep == part = "rx" /\ Rx!Next /\ OnlyRx
DrainStep == part = "drain" /\ Drain!Next /\ OnlyDrain
FinStep == part = "fin" /\ Fin!Next /\ OnlyFin
Arp1Step == part = "arp1" /\ Neigh!Next /\ OnlyArp
Arp2Step == part = "arp2" /\ Arp2!Next /\ OnlyArp
DhcpStep == part = "dhcp" /\ Next /\ OnlyDhcp

AllNext ==
  \/ TableStep \/ RxStep \/ DrainStep \/ FinStep \/ Arp1Step \/ Arp2Step \/ DhcpStep

\* The fairness of every component's FairSpec.  A behaviour runs one component,
\* so each of these is weak fairness of one of its actions.
FairTimer ==
  \/ part = "table" /\ Table!tcp_tick(0) /\ OnlyTable
  \/ part = "rx" /\ Rx!Retransmit /\ OnlyRx
  \/ part = "drain" /\ Drain!tcp_tick_rto /\ OnlyDrain
  \/ part = "fin" /\ Fin!tcp_tick_rto /\ OnlyFin
  \/ part \in {"arp1", "arp2"} /\ Neigh!arp_tick /\ OnlyArp
  \/ part = "dhcp" /\ dhcp_tick /\ OnlyDhcp

FairUse ==
  \/ part = "table" /\ Table!tcp_tick(1) /\ OnlyTable
  \/ part = "rx" /\ Rx!tcp_recv(4) /\ OnlyRx
  \/ part = "drain" /\ Drain!tcp_tick_persist /\ OnlyDrain
  \/ part = "fin" /\ Fin!tcp_tick_persist /\ OnlyFin
  \/ part \in {"arp1", "arp2"} /\ Neigh!Resolving(1) /\ OnlyArp

FairPeer ==
  \/ part = "table" /\ Table!tcp_tick(2) /\ OnlyTable
  \/ part = "drain" /\ Drain!PeerAcks /\ OnlyDrain
  \/ part = "fin" /\ Fin!PeerAcks /\ OnlyFin
  \/ part \in {"arp1", "arp2"} /\ Neigh!Resolving(2) /\ OnlyArp

AllFair == WF_allVars(FairTimer) /\ WF_allVars(FairUse) /\ WF_allVars(FairPeer)

AllSpec == AllInit /\ [][AllNext]_allVars /\ AllFair

-----------------------------------------------------------------------------

\* The cache forgets silent hosts and no others: arp_tick() drops an entry only
\* when ARP_PROBE_MAX requests went out since the host was last heard, and an
\* address that senders keep resolving leaves the cache once its host has fallen
\* silent (one address, the other is like it).
SilentForgotten == Neigh!DropsSilent /\ Neigh!SilentForgotten(1)

\* A connection that is being set up or torn down leaves that state, by the
\* peer or by the timers of tcp_tick(), unless the peer repeats its SYN for ever.
\* This is not so in FIN_WAIT_2 and in LAST_ACK after the FIN of the peer came
\* again with the last acknowledgement: no timer runs there (tcp_handle(),
\* rto_deadline = 0), and the TCB is in use for as long as the peer is silent.
ConnectionsEnd == \A c \in 0 .. 2 : Table!TimedEnds(c)

\* A program that keeps reading reads the whole stream, although segments are
\* repeated, reordered and cut and acknowledgements fail, and also after the peer
\* acknowledged our FIN and the TCB is free, unless a new connection takes the
\* TCB first (tcp_recv()).  It need not see the end: from then on an empty buffer
\* is reported as EAGAIN.
AllRead == part = "rx" => Rx!AllRead

\* Whatever tcp_send() accepted is acknowledged in the end, or the connection
\* is given up after R2 retransmissions.
Drains == Drain!Drains

\* A close always comes to an end: the own FIN is acknowledged or given up, in
\* whatever order data, FINs and acknowledgements of both sides cross; in
\* FIN_WAIT_2 it has been acknowledged, and until then its timer runs.
FinEnds == Fin!FinEnds /\ [](Fin!FinAcked /\ Fin!TimerArmed)

\* The machine gets an address, a lease or the static one, unless servers
\* refuse it again and again.
FindsAddress == part = "dhcp" => GetsAddress

=============================================================================
