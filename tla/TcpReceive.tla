----------------------------- MODULE TcpReceive -----------------------------
(***************************************************************************)
(* The receiving half of a connection (net/net_tcp.c): reassembly with a   *)
(* few slots for segments ahead of sequence, the receive buffer, the       *)
(* window that is advertised, FIN, and tcp_recv().  The peer sends a       *)
(* stream whose bytes are its positions 0, 1, ...; the network repeats,    *)
(* reorders and cuts segments.  Sequence numbers are SeqBits wide.  A      *)
(* segment is handled in one step, as long as the poll of the card is not  *)
(* entered again while it runs (see TcpTable).                             *)
(***************************************************************************)
EXTENDS Integers, Sequences

CONSTANTS
  SeqBits,   \* width of a sequence number (32)
  BufSize,   \* TCP_BUF_SIZE
  Mss,       \* TCP_MSS
  Slots,     \* TCP_OOO_SLOTS
  Isn,       \* the sequence number of the first byte
  StreamLen, \* bound: bytes the peer sends before its FIN
  MaxLen,    \* bound: bytes of a segment
  Back,      \* bound: how far before rcv_nxt a segment starts
  Sent       \* outcomes of sending a segment: {TRUE}, or {TRUE, FALSE}

VARIABLES
  state,     \* "ESTABLISHED"; "LAST_ACK" after the FIN of the peer; "CLOSED" once
             \* the TCB is free; "REUSED" when a new connection has it
  rcv_nxt,
  rxb,       \* rxb[0 .. rxn - 1]
  ooo,       \* ooo[]: records [seq, data], or Unused
  ooo_bytes,
  adv_win,   \* the window last advertised
  read       \* bytes handed to the program so far

vars == <<state, rcv_nxt, rxb, ooo, ooo_bytes, adv_win, read>>

Mod == 2 ^ SeqBits
Unused == [seq |-> 0, data |-> <<>>]
Slot == 1 .. Slots

\* The bytes the peer sends at positions pos .. pos + len - 1.
Bytes(pos, len) == [i \in 1 .. len |-> pos + i - 1]
SeqNo(pos) == (Isn + pos) % Mod

\* tcp_seq_after() and tcp_seq_before(): the sign of the 32-bit difference.
tcp_seq_after(a, b) == (a - b) % Mod \in 1 .. (Mod \div 2) - 1
tcp_seq_before(a, b) == (a - b) % Mod >= Mod \div 2

\* How far the stream has been received.
Received == read + Len(rxb)

\* In ESTABLISHED, the SYN-ACK having advertised the whole buffer.
Init ==
  /\ state = "ESTABLISHED"
  /\ rcv_nxt = Isn
  /\ rxb = <<>>
  /\ ooo = [i \in Slot |-> Unused]
  /\ ooo_bytes = 0
  /\ adv_win = BufSize
  /\ read = 0

-----------------------------------------------------------------------------
(* Reassembly.  A connection is the record [rcv_nxt, rxb, ooo, ooo_bytes]. *)

Drop(c, i) ==
  [c EXCEPT !.ooo_bytes = @ - Len(c.ooo[i].data), !.ooo[i] = Unused]

\* The part of slot i from rcv_nxt on.
Trim_Uncut(c, i) ==
  LET trim == (c.rcv_nxt - c.ooo[i].seq) % Mod
  IN IF tcp_seq_before(c.ooo[i].seq, c.rcv_nxt)
     THEN [c EXCEPT !.ooo_bytes = @ - trim,
                    !.ooo[i] = [seq |-> c.rcv_nxt, data |-> SubSeq(@.data, 1, Len(@.data) - trim)]]
     ELSE c

Trim(c, i) ==
  LET trim == (c.rcv_nxt - c.ooo[i].seq) % Mod
  IN IF tcp_seq_before(c.ooo[i].seq, c.rcv_nxt)
     THEN [c EXCEPT !.ooo_bytes = @ - trim,
                    !.ooo[i] = [seq |-> c.rcv_nxt, data |-> SubSeq(@.data, trim + 1, Len(@.data))]]
     ELSE c

\* Slot i, when it is next and fits, goes to the buffer.
Deliver(c, i) ==
  IF c.ooo[i].seq = c.rcv_nxt /\ Len(c.rxb) + Len(c.ooo[i].data) <= BufSize
  THEN [Drop(c, i) EXCEPT !.rxb = @ \o c.ooo[i].data,
                          !.rcv_nxt = (@ + Len(c.ooo[i].data)) % Mod]
  ELSE c

\* One turn of the loop of tcp_merge_ooo() for slot i.
MergeSlot(c, i) ==
  IF c.ooo[i] = Unused THEN c
  ELSE IF ~tcp_seq_after(c.ooo[i].seq + Len(c.ooo[i].data), c.rcv_nxt) THEN Drop(c, i)
  ELSE Deliver(Trim(c, i), i)

\* A pass over all slots.
MergePass(c) ==
  LET after[i \in 0 .. Slots] == IF i = 0 THEN c ELSE MergeSlot(after[i - 1], i)
  IN  after[Slots]

\* The passes are repeated until one changes nothing; a pass that changes
\* something empties a slot or trims one, so 2 * Slots + 1 are enough.
tcp_merge_ooo(c) ==
  LET after[n \in 0 .. 2 * Slots + 1] == IF n = 0 THEN c ELSE MergePass(after[n - 1])
  IN  after[2 * Slots + 1]

\* tcp_queue_ooo(): a segment that is not next.  What lies before rcv_nxt is cut
\* off, an overlap with a slot refuses it, and it needs an unused slot.
Overlaps(c, seq, len) ==
  \E i \in Slot :
    /\ c.ooo[i] # Unused
    /\ tcp_seq_before(seq, c.ooo[i].seq + Len(c.ooo[i].data))
    /\ tcp_seq_before(c.ooo[i].seq, seq + len)

tcp_queue_ooo(c, seq, data) ==
  LET end == seq + Len(data)
      trim == IF tcp_seq_after(seq, c.rcv_nxt) THEN 0 ELSE (c.rcv_nxt - seq) % Mod
      s == [seq |-> (seq + trim) % Mod, data |-> SubSeq(data, trim + 1, Len(data))]
      unused == {i \in Slot : c.ooo[i] = Unused}
  IN IF \/ Len(data) > Mss \/ c.ooo_bytes + Len(data) > BufSize
        \/ ~tcp_seq_after(end, c.rcv_nxt)
        \/ Overlaps(c, s.seq, Len(s.data))
        \/ unused = {}
     THEN c
     ELSE [c EXCEPT !.ooo[CHOOSE i \in unused : \A j \in unused : i <= j] = s,
                    !.ooo_bytes = @ + Len(s.data)]

\* Room for a segment in sequence.
Fits_Strict(c, len) == len <= Mss /\ Len(c.rxb) + len < BufSize
Fits(c, len) == len <= Mss /\ Len(c.rxb) + len <= BufSize

tcp_accept_data(c, seq, data) ==
  IF seq # c.rcv_nxt THEN tcp_queue_ooo(c, seq, data)
  ELSE IF Fits(c, Len(data))
  THEN tcp_merge_ooo([c EXCEPT !.rxb = @ \o data, !.rcv_nxt = (@ + Len(data)) % Mod])
  ELSE c

-----------------------------------------------------------------------------
(* The steps.                                                              *)

\* The window for a buffer: nothing rather than less than a segment.
tcp_advertise_window(buf) ==
  LET free == BufSize - Len(buf) IN IF free < Mss THEN 0 ELSE free

conn == [rcv_nxt |-> rcv_nxt, rxb |-> rxb, ooo |-> ooo, ooo_bytes |-> ooo_bytes]

\* tcp_handle() of a segment with data: it is accepted or not, and acknowledged
\* with the window that is then open.  A segment that carries the FIN of the
\* peer, with all before it received, takes one sequence number more.
InSequence_Acked(c, end) == (end + 1) % Mod = c.rcv_nxt
InSequence(c, end) == end = c.rcv_nxt

tcp_handle(pos, len, fin) ==
  /\ state = "ESTABLISHED"
  /\ \E c \in {IF len = 0 THEN conn ELSE tcp_accept_data(conn, SeqNo(pos), Bytes(pos, len))} :
       LET eof == fin /\ InSequence(c, SeqNo(pos + len))
       IN /\ state' = IF eof THEN "LAST_ACK" ELSE "ESTABLISHED"
          /\ rcv_nxt' = IF eof THEN (c.rcv_nxt + 1) % Mod ELSE c.rcv_nxt
          /\ rxb' = c.rxb /\ ooo' = c.ooo /\ ooo_bytes' = c.ooo_bytes
          /\ \E ok \in Sent :
               adv_win' = IF ok THEN tcp_advertise_window(c.rxb) ELSE adv_win
  /\ UNCHANGED read

\* The peer acknowledges our FIN, or tcp_tick() gives up sending it: the TCB is
\* free, although bytes may wait in its buffer.
tcp_handle_last_ack ==
  /\ state = "LAST_ACK"
  /\ state' = "CLOSED"
  /\ UNCHANGED <<rcv_nxt, rxb, ooo, ooo_bytes, adv_win, read>>

\* The SYN of another connection takes the free TCB over, and its buffer.
tcp_handle_syn ==
  /\ state = "CLOSED"
  /\ state' = "REUSED"
  /\ rxb' = <<>>
  /\ UNCHANGED <<rcv_nxt, ooo, ooo_bytes, adv_win, read>>

\* tcp_window_update_ack(): the window has opened by half or more.
Reopened(nw) == nw > 0 /\ adv_win < nw /\ nw >= 2 * adv_win

\* tcp_recv() of up to n bytes, in whatever state.  With an empty buffer it
\* returns 0 in LAST_ACK, and -1, which the program takes for EAGAIN, in CLOSED.
tcp_recv(n) ==
  LET k == IF n < Len(rxb) THEN n ELSE Len(rxb)
      rest == SubSeq(rxb, k + 1, Len(rxb))
      nw == tcp_advertise_window(rest)
  IN /\ rxb # <<>>
     /\ rxb' = rest
     /\ read' = read + k
     /\ \E ok \in Sent :
          adv_win' = IF ok /\ state = "ESTABLISHED" /\ Reopened(nw) THEN nw ELSE adv_win
     /\ UNCHANGED <<state, rcv_nxt, ooo, ooo_bytes>>

\* What the peer may send: any part of the stream from Back bytes before what
\* was received up to the end of the receive buffer, and one byte as a probe.
Segment ==
  \E pos \in Received - Back .. read + BufSize, len \in 0 .. MaxLen, fin \in BOOLEAN :
    /\ pos >= 0 /\ pos + len <= StreamLen
    /\ pos + len <= read + BufSize \/ len = 1
    /\ fin => pos + len = StreamLen
    /\ len > 0 \/ fin
    /\ tcp_handle(pos, len, fin)

Next ==
  \/ Segment
  \/ tcp_handle_last_ack
  \/ tcp_handle_syn
  \/ \E n \in 1 .. BufSize : tcp_recv(n)

Spec == Init /\ [][Next]_vars

\* The peer repeats what is not acknowledged, its FIN included, and the program
\* keeps reading.
Retransmit ==
  LET rest == StreamLen - Received
      len == IF rest < Mss THEN rest ELSE Mss
  IN tcp_handle(Received, len, len = rest)

FairSpec == Spec /\ WF_vars(Retransmit) /\ WF_vars(tcp_recv(BufSize))

-----------------------------------------------------------------------------
(* Properties.                                                             *)

\* The receive buffer holds the bytes of the stream that come next, each once
\* and in order, however the segments overlapped, and rcv_nxt counts them; the
\* cached segments carry the bytes their sequence numbers stand for.
StreamIntact ==
  /\ rxb = Bytes(read, Len(rxb))
  /\ state # "REUSED" => rcv_nxt = SeqNo(Received + IF state = "ESTABLISHED" THEN 0 ELSE 1)
  /\ \A i \in Slot : ooo[i] # Unused =>
       /\ ooo[i].data = Bytes(ooo[i].data[1], Len(ooo[i].data))
       /\ ooo[i].seq = SeqNo(ooo[i].data[1])

CachedBytes(o) ==
  LET total[k \in 0 .. Slots] == IF k = 0 THEN 0 ELSE total[k - 1] + Len(o[k].data)
  IN  total[Slots]

\* ooo_bytes is the number of cached bytes: it would otherwise refuse segments
\* for ever, or wrap below zero.  No byte is cached twice.
CacheAccounted ==
  /\ ooo_bytes = CachedBytes(ooo)
  /\ Len(rxb) <= BufSize
  /\ \A i, j \in Slot : i # j => \A x \in 1 .. Len(ooo[i].data), y \in 1 .. Len(ooo[j].data) :
       ooo[i].data[x] # ooo[j].data[y]

\* The end of file is reported (LAST_ACK) and the TCB given up (CLOSED) only
\* when every byte of the stream was received.
NoEarlyEof == state \in {"LAST_ACK", "CLOSED"} => Received = StreamLen

\* A window that was advertised is honoured: bytes in sequence up to its right
\* edge are accepted, although the rule against small windows takes it back.
WindowHonoured ==
  state = "ESTABLISHED" =>
    \A len \in 1 .. Mss : len <= adv_win =>
      tcp_accept_data(conn, rcv_nxt, Bytes(Received, len)).rcv_nxt # rcv_nxt

\* The peer is not left with a closed window while there is room for a segment
\* (tcp_advertise_window, "no deadlock").
NoClosedWindow ==
  state = "ESTABLISHED" /\ adv_win = 0 => tcp_advertise_window(rxb) = 0

\* The end of the stream is recognised, and the program reads the whole stream,
\* also after the TCB is free, unless a new connection takes the TCB first.
AllRead == <>(state # "ESTABLISHED" /\ (read = StreamLen \/ state = "REUSED"))

=============================================================================
