------------------------------- MODULE E1000 -------------------------------
(***************************************************************************)
(* The descriptor rings of drivers/e1000.c: e1000_poll(), which net_poll() *)
(* runs on every timer interrupt, and e1000_tx_alloc()/e1000_tx_submit().  *)
(* The card is external: it fills receive descriptors from RDH up to RDT,  *)
(* and sends from TDH up to TDT.  Packets and frames are serial numbers.   *)
(*                                                                         *)
(* net_ping() and net_dns_resolve() execute `sti' and then send and poll   *)
(* themselves, so the timer interrupt, which polls and sends too, may come *)
(* inside. Their sends are taken step by step. Their polls are left out of *)
(* Spec, which is the driver as long as the poll is not re-entered, and    *)
(* are part of PingSpec.                                                   *)
(***************************************************************************)
EXTENDS Integers, Sequences

CONSTANTS
  RX_N, TX_N, E1000_BATCH_LIMIT,
  MaxPackets,      \* bound: packets that arrive
  Senders,         \* the processes in net_ping() or net_dns_resolve()
  MaxFrames        \* bound: no frame is begun after this many

Empty == 0
Rx == 0 .. RX_N - 1
Tx == 0 .. TX_N - 1

VARIABLES
  rx,          \* the packet of a descriptor with DD set, or Empty
  rdh, rdt,    \* the card's registers
  rx_last,
  received,    \* the packets the card stored
  handled,     \* the packets given to net_handle_packet()
  tx,          \* of each descriptor: its buffer, and DD
  tdh, tdt,    \* the card's registers
  tx_next,
  framed,      \* the frames written
  sent,        \* the frames the card sent
  slow,        \* the send of each process of Senders: where it is, its buffer
  crossed,     \* a send was begun inside another one
  ping         \* the poll of net_ping(), in progress or not

rxVars == <<rx, rdh, rdt, rx_last, received, handled>>
txVars == <<tx, tdh, tdt, tx_next, framed, sent, slow, crossed>>
vars == <<rxVars, txVars, ping>>

NoSend == [at |-> "out", buf |-> 0]
NoPoll == [at |-> "out", i |-> 0, processed |-> 0]

\* e1000_init().
Init ==
  /\ rx = [i \in Rx |-> Empty] /\ rdh = 0 /\ rdt = RX_N - 1 /\ rx_last = 0
  /\ received = 0 /\ handled = <<>>
  /\ tx = [i \in Tx |-> [frame |-> 0, dd |-> TRUE]]
  /\ tdh = 0 /\ tdt = 0 /\ tx_next = 0
  /\ framed = 0 /\ sent = <<>> /\ slow = [p \in Senders |-> NoSend] /\ crossed = FALSE
  /\ ping = NoPoll

----------------------------------------------------------------------------
(* Receiving.                                                              *)

\* The card stores a packet, if software has left it a descriptor.
Receive ==
  /\ received < MaxPackets /\ rdh # rdt
  /\ received' = received + 1
  /\ rx' = [rx EXCEPT ![rdh] = received']
  /\ rdh' = (rdh + 1) % RX_N
  /\ UNCHANGED <<rdt, rx_last, handled, txVars, ping>>

\* The j-th descriptor from rx_last.
Slot(j) == (rx_last + j) % RX_N

\* RDT is set to the last of the n descriptors handled.
Returned(n) == Slot(n - 1)

\* The first n descriptors from rx_last all hold packets.
Ready(n) == \A j \in 0 .. n - 1 : rx[Slot(j)] # Empty

Released_LastOnly(n) == [rx EXCEPT ![Slot(n - 1)] = Empty]

\* The status of the n descriptors is cleared.
Released(n) == [i \in Rx |-> IF (i - rx_last) % RX_N < n THEN Empty ELSE rx[i]]

\* e1000_poll() in the interrupt: at most a batch, then RDT once.
e1000_poll ==
  \E n \in 1 .. E1000_BATCH_LIMIT :
    /\ n <= RX_N /\ Ready(n)
    /\ n = E1000_BATCH_LIMIT \/ n = RX_N \/ ~Ready(n + 1)
    /\ handled' = handled \o [j \in 1 .. n |-> rx[Slot(j - 1)]]
    /\ rx' = Released(n)
    /\ rx_last' = Slot(n)
    /\ rdt' = Returned(n)
    /\ UNCHANGED <<rdh, received, txVars, ping>>

\* The same loop in net_ping(), with interrupts on: load i and handle ...
ping_handle ==
  /\ ping.at \in {"out", "loop"}
  /\ ping.processed < E1000_BATCH_LIMIT /\ rx[rx_last] # Empty
  /\ handled' = Append(handled, rx[rx_last])
  /\ ping' = [ping EXCEPT !.at = "release", !.i = rx_last]
  /\ UNCHANGED <<rx, rdh, rdt, rx_last, received, txVars>>

\* ... release descriptor i and move on ...
ping_release ==
  /\ ping.at = "release"
  /\ rx' = [rx EXCEPT ![ping.i] = Empty]
  /\ rx_last' = (ping.i + 1) % RX_N
  /\ ping' = [ping EXCEPT !.at = "loop", !.processed = @ + 1]
  /\ UNCHANGED <<rdh, rdt, received, handled, txVars>>

\* ... and tell the card.
ping_return ==
  /\ ping.at = "loop"
  /\ ping.processed = E1000_BATCH_LIMIT \/ rx[rx_last] = Empty
  /\ rdt' = ping.i
  /\ ping' = NoPoll
  /\ UNCHANGED <<rx, rdh, rx_last, received, handled, txVars>>

----------------------------------------------------------------------------
(* Sending.                                                                *)

MayFill_Always(n) == TRUE

\* e1000_tx_alloc(): the buffer of tx_next is free when its DD is set.
MayFill(n) == tx[n].dd

Following(n) == (n + 1) % TX_N

\* A process is between e1000_tx_alloc() and the end of e1000_tx_submit().
Sending == \E p \in Senders : slow[p].at # "out"

\* A sender with interrupts off (the timer interrupt, a system call):
\* e1000_tx_alloc(), the frame written, e1000_tx_submit().
e1000_tx_submit ==
  /\ framed < MaxFrames /\ MayFill(tx_next)
  /\ framed' = framed + 1
  /\ tx' = [tx EXCEPT ![tx_next] = [frame |-> framed', dd |-> FALSE]]
  /\ tx_next' = Following(tx_next) /\ tdt' = Following(tx_next)
  /\ crossed' = (crossed \/ Sending)
  /\ UNCHANGED <<rxVars, tdh, sent, slow, ping>>

\* The same in a process p with interrupts on: begin_ip() takes the buffer ...
slow_alloc(p) ==
  /\ slow[p].at = "out" /\ framed < MaxFrames /\ MayFill(tx_next)
  /\ slow' = [slow EXCEPT ![p] = [at |-> "write", buf |-> tx_next]]
  /\ crossed' = (crossed \/ Sending)
  /\ UNCHANGED <<rxVars, tx, tdh, tdt, tx_next, framed, sent, ping>>

\* ... the frame is written into it ...
slow_write(p) ==
  /\ slow[p].at = "write"
  /\ framed' = framed + 1
  /\ tx' = [tx EXCEPT ![slow[p].buf].frame = framed']
  /\ slow' = [slow EXCEPT ![p].at = "load"]
  /\ UNCHANGED <<rxVars, tdh, tdt, tx_next, sent, crossed, ping>>

\* ... e1000_tx_submit() loads tx_next again and tests DD ...
slow_load(p) ==
  /\ slow[p].at = "load"
  /\ slow' = [slow EXCEPT ![p] = IF tx[tx_next].dd THEN [at |-> "publish", buf |-> tx_next]
                                                  ELSE NoSend]
  /\ UNCHANGED <<rxVars, tx, tdh, tdt, tx_next, framed, sent, crossed, ping>>

\* ... clears DD and gives the descriptor to the card ...
slow_publish(p) ==
  /\ slow[p].at = "publish"
  /\ tx' = [tx EXCEPT ![slow[p].buf].dd = FALSE]
  /\ tdt' = Following(slow[p].buf)
  /\ slow' = [slow EXCEPT ![p].at = "advance"]
  /\ UNCHANGED <<rxVars, tdh, tx_next, framed, sent, crossed, ping>>

\* ... and moves on.
slow_advance(p) ==
  /\ slow[p].at = "advance"
  /\ tx_next' = Following(slow[p].buf)
  /\ slow' = [slow EXCEPT ![p] = NoSend]
  /\ UNCHANGED <<rxVars, tx, tdh, tdt, framed, sent, crossed, ping>>

\* The card sends the frame at TDH.
Transmit ==
  /\ tdh # tdt
  /\ sent' = Append(sent, tx[tdh].frame)
  /\ tx' = [tx EXCEPT ![tdh].dd = TRUE]
  /\ tdh' = (tdh + 1) % TX_N
  /\ UNCHANGED <<rxVars, tdt, tx_next, framed, slow, crossed, ping>>

RxNext == Receive \/ e1000_poll
TxNext ==
  \/ e1000_tx_submit \/ Transmit
  \/ \E p \in Senders :
       slow_alloc(p) \/ slow_write(p) \/ slow_load(p) \/ slow_publish(p) \/ slow_advance(p)
Next == RxNext \/ TxNext
Spec == Init /\ [][Next]_vars

PingNext == Next \/ ping_handle \/ ping_release \/ ping_return
PingSpec == Init /\ [][PingNext]_vars

----------------------------------------------------------------------------

\* "Safe without locks on one core: ... poll is not re-entrant" (the comment
\* at e1000_poll()): every packet is handled once, in the order of arrival.
HandledOnce == \A j \in DOMAIN handled : handled[j] = j

\* When every packet has been handled the card has a descriptor to store the
\* next one in: RDT trails rx_last, and never meets RDH then.
RoomWhenDrained == Len(handled) = received => rdh # rdt

\* A frame leaves as it was written, in order: no buffer is written while the
\* card has yet to read it (the DD test of e1000_tx_alloc()), also by a ping or a
\* resolution that sends with interrupts on.  Only a send begun inside another
\* one may spoil it: both then fill the buffer of tx_next.
SentAsWritten == crossed \/ \A j \in DOMAIN sent : sent[j] = j

=============================================================================
