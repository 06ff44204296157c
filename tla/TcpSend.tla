------------------------------- MODULE TcpSend ------------------------------
(***************************************************************************)
(* The sending half of an established connection (net/net_tcp.c): the send *)
(* buffer, the windows, acknowledgements, the retransmission and persist   *)
(* timers, FIN.  The program writes a stream whose bytes are its positions *)
(* 0, 1, ...; the peer keeps what arrives in sequence.  A segment is       *)
(* delivered at once, lost, or not sent at all ("failed": no ARP entry, no *)
(* descriptor).  SACK and the measurement of round trips are left out: the *)
(* peer does not offer SACK, and when a timer runs out is left open.  A    *)
(* segment is handled in one step, as long as the poll of the card is not  *)
(* entered again while it runs (see TcpTable).                             *)
(***************************************************************************)
EXTENDS Integers, Sequences

CONSTANTS
  SeqBits,  \* width of a sequence number (32)
  Isn,      \* the sequence number of the first byte
  BufSize,  \* TCP_BUF_SIZE
  Mss,      \* TCP_MSS, and the MSS of the peer
  R2Data,   \* TCP_RTO_RETRY_DATA
  WriteLen, \* bound: bytes the program writes
  Windows,  \* windows the peer advertises
  Outcomes, \* of sending: a subset of {"delivered", "lost", "failed"}
  OldAcks,  \* 0, or 1: acknowledgements may come out of order
  Closes,   \* when the program closes: a subset of {"drained", "any"}
  PeerFins  \* how many FINs the peer sends: 0 or 1

VARIABLES
  conn,    \* the fields of tcp_conn_t that sending uses
  peer,    \* what the peer has: the stream, eof when it got FIN, fins it may send
  written  \* bytes that tcp_send() accepted

vars == <<conn, peer, written>>

Mod == 2 ^ SeqBits
Junk == -1
MinOf(a, b) == IF a < b THEN a ELSE b
MaxOf(a, b) == IF a > b THEN a ELSE b

tcp_seq_after(a, b) == (a - b) % Mod \in 1 .. (Mod \div 2) - 1

\* cwnd beyond what the buffer can hold makes no difference.
CwndCap == BufSize + 3 * Mss

\* What the peer expects next.
PeerNext == (Isn + Len(peer.stream) + IF peer.eof = "yes" THEN 1 ELSE 0) % Mod

InFlight(c) == (c.nxt - c.una) % Mod

\* ESTABLISHED with nothing sent, cwnd as tcp_cc_init() leaves it.
Init ==
  /\ \E w \in Windows :
       conn = [state |-> "ESTABLISHED", una |-> Isn, nxt |-> Isn, sndb |-> <<>>, win |-> w,
               cwnd |-> Mss, ssthresh |-> BufSize, dupacks |-> 0, fast |-> "no",
               recover |-> 0, rto |-> "off", tries |-> 0, persist |-> "off"]
  /\ peer = [stream |-> <<>>, eof |-> "no", fins |-> PeerFins]
  /\ written = 0

-----------------------------------------------------------------------------
(* Sending.  w holds connection and peer, [c, p, stop]; an operator that   *)
(* sends one segment takes its outcome, one that sends several gives the   *)
(* set of what may come of it.                                             *)

\* tcp_put_pkt() of data at seq: the peer takes what continues its stream.
Put(w, seq, data, outcome) ==
  LET next == (Isn + Len(w.p.stream)) % Mod
      off == (next - seq) % Mod
  IN IF outcome = "delivered" /\ w.p.eof = "no" /\ off < Len(data)
     THEN [w EXCEPT !.p.stream = @ \o SubSeq(data, off + 1, Len(data))]
     ELSE w

\* tcp_put_pkt() of a FIN at seq.
PutFin(w, seq, outcome) ==
  IF outcome = "delivered" /\ seq = (Isn + Len(w.p.stream)) % Mod
  THEN [w EXCEPT !.p.eof = "yes"] ELSE w

\* The first n bytes at sndb + from; beyond snd_used they are old bytes.
Buffered(c, from, n) ==
  [i \in 1 .. n |-> IF from + i <= Len(c.sndb) THEN c.sndb[from + i] ELSE Junk]

SendWindow(c) == MinOf(c.win, c.cwnd)

\* How much tcp_xmit_pending() sends in its next segment.
Room_Whole(c) == MinOf(Len(c.sndb) - InFlight(c), Mss)
Room(c) == MinOf(MinOf(Len(c.sndb) - InFlight(c), SendWindow(c) - InFlight(c)), Mss)

\* Data that was sent has a timer.
Armed(c) == [c EXCEPT !.rto = "on"]

\* One turn of the loop of tcp_xmit_pending(); a segment that cannot be sent
\* ends it.
XmitOne(w, outcome) ==
  LET c == w.c
      n == Room(c)
      sent == Put(w, c.nxt, Buffered(c, InFlight(c), n), outcome)
  IN IF w.stop = "yes" \/ InFlight(c) >= SendWindow(c) \/ Len(c.sndb) <= InFlight(c) THEN w
     ELSE IF outcome = "failed" THEN [w EXCEPT !.stop = "yes"]
     ELSE [sent EXCEPT !.c = [Armed(c) EXCEPT !.nxt = (@ + n) % Mod, !.persist = "off"]]

\* The loop ends after a segment for every Mss bytes and the rest.
MaxTurns == (BufSize \div Mss) + 1

tcp_xmit_pending(w) ==
  LET after[k \in 0 .. MaxTurns] ==
        IF k = 0 THEN {w} ELSE {XmitOne(v, out) : v \in after[k - 1], out \in Outcomes}
  IN IF SendWindow(w.c) > 0 THEN after[MaxTurns]
     ELSE IF Len(w.c.sndb) > InFlight(w.c) THEN {[w EXCEPT !.c.persist = "on"]}
     ELSE {w}

world == [c |-> conn, p |-> peer, stop |-> "no"]
Becomes(w) == conn' = w.c /\ peer' = w.p

-----------------------------------------------------------------------------
(* Calls.                                                                  *)

\* tcp_send() of n bytes.
tcp_send(n) ==
  /\ conn.state = "ESTABLISHED"
  /\ n <= MinOf(Mss, BufSize - Len(conn.sndb))
  /\ written + n <= WriteLen
  /\ written' = written + n
  /\ \E w \in tcp_xmit_pending([world EXCEPT !.c.sndb = @ \o [i \in 1 .. n |-> written + i - 1]]) :
       Becomes(w)

\* The own FIN takes the next sequence number; tcp_rto_arm().
SendFin(w, state, outcome) ==
  [PutFin(w, w.c.nxt, outcome) EXCEPT
     !.c = [@ EXCEPT !.state = state, !.nxt = (@ + 1) % Mod, !.rto = "on", !.tries = 0]]

\* tcp_close()
tcp_close(when) ==
  /\ conn.state = "ESTABLISHED"
  /\ when = "drained" => conn.sndb = <<>>
  /\ \E out \in Outcomes : Becomes(SendFin(world, "FIN_WAIT_1", out))
  /\ UNCHANGED written

-----------------------------------------------------------------------------
(* tcp_handle(): a segment of the peer with acknowledgement a and window.  *)

\* tcp_loss_window()
tcp_loss_window(c, inflight) ==
  [c EXCEPT !.ssthresh = MaxOf(inflight \div 2, 2 * Mss), !.cwnd = Mss,
            !.dupacks = 0, !.fast = "no"]

\* Any segment records the window and with it stops or starts the persist timer.
Window(c, win) ==
  [c EXCEPT !.win = win,
            !.persist = IF win > 0 THEN "off"
                        ELSE IF Len(c.sndb) > InFlight(c) THEN "on" ELSE @]

\* The third duplicate acknowledgement: the segment at snd_una is sent again.
FastRetransmit(w, outcome) ==
  LET n == MinOf(InFlight(w.c), Mss)
      l == tcp_loss_window(w.c, InFlight(w.c))
      c == [l EXCEPT !.dupacks = 3, !.cwnd = MinOf(l.ssthresh + 3 * Mss, CwndCap),
                     !.recover = w.c.nxt, !.rto = "on",
                     !.fast = IF outcome = "failed" THEN "no" ELSE "yes"]
  IN [Put(w, w.c.una, Buffered(w.c, 0, n), outcome) EXCEPT !.c = c]

Duplicate(w) ==
  LET c == [w.c EXCEPT !.dupacks = MinOf(@ + 1, 4)]
      more == [c EXCEPT !.cwnd = MinOf(@ + Mss, CwndCap)]
  IN IF c.dupacks = 3 THEN {FastRetransmit([w EXCEPT !.c = c], out) : out \in Outcomes}
     ELSE IF c.fast = "yes" /\ c.dupacks > 3 THEN tcp_xmit_pending([w EXCEPT !.c = more])
     ELSE {[w EXCEPT !.c = c]}

\* The buffer after ack: what it acknowledges is gone.  The FIN is not in it.
Acked_OffByOne(c, ack) == MinOf(((ack - c.una) % Mod) + 1, Len(c.sndb))
Acked(c, ack) == MinOf((ack - c.una) % Mod, Len(c.sndb))

\* The timer after an acknowledgement: off when all is acknowledged.
RtoAfterAck(c) == IF c.nxt = c.una THEN "off" ELSE "on"

Progress(w, ack) ==
  LET c == w.c
      acked == Acked(c, ack)
      grown == IF acked = 0 THEN c.cwnd
               ELSE IF c.cwnd < c.ssthresh THEN c.cwnd + MinOf(acked, Mss)
               ELSE c.cwnd + MaxOf((Mss * acked) \div c.cwnd, 1)
      over == c.fast = "yes" /\ ~tcp_seq_after(c.recover, ack)
      next == [c EXCEPT !.una = ack, !.sndb = SubSeq(@, acked + 1, Len(@)),
                        !.cwnd = IF over THEN c.ssthresh ELSE MinOf(grown, CwndCap),
                        !.fast = IF over THEN "no" ELSE @,
                        !.dupacks = 0, !.tries = 0]
  IN {[v EXCEPT !.c.rto = RtoAfterAck(v.c)] : v \in tcp_xmit_pending([w EXCEPT !.c = next])}

\* The acknowledgement part: a duplicate, an opened window, progress, or nothing.
Ack(w, ack, win) ==
  LET c == w.c
      v == [w EXCEPT !.c = Window(c, win)]
  IN IF ack = c.una /\ InFlight(c) > 0 /\ win <= c.win THEN Duplicate(v)
     ELSE IF ack = c.una /\ win > c.win
     THEN tcp_xmit_pending([v EXCEPT !.c.dupacks = 0])
     ELSE IF tcp_seq_after(ack, c.una) /\ ~tcp_seq_after(ack, c.nxt) THEN Progress(v, ack)
     ELSE {v}

\* Whether all that was sent is acknowledged, as the state machine decides it:
\* by comparing the numbers as they are.
AllAcked(una, nxt) == una >= nxt

\* The FIN of the peer in sequence.
PeerFin(w, outcome) ==
  LET c == w.c
      to(s) == [w EXCEPT !.c.state = s]
  IN CASE c.state = "ESTABLISHED" -> SendFin(w, "LAST_ACK", outcome)
       [] c.state = "FIN_WAIT_1" -> to(IF AllAcked(c.una, c.nxt) THEN "TIME_WAIT" ELSE "CLOSING")
       [] c.state \in {"FIN_WAIT_2", "CLOSING"} -> to("TIME_WAIT")
       [] OTHER -> w

\* The state after an acknowledgement without FIN.
AckState(w, ack) ==
  LET c == w.c
  IN CASE c.state = "FIN_WAIT_1" /\ AllAcked(c.una, c.nxt) ->
            [w EXCEPT !.c.state = "FIN_WAIT_2", !.c.rto = "off"]
       [] c.state = "CLOSING" /\ AllAcked(c.una, c.nxt) -> [w EXCEPT !.c.state = "TIME_WAIT"]
       [] c.state = "LAST_ACK" /\ AllAcked(ack, c.nxt) ->
            [w EXCEPT !.c.state = "FREE", !.c.rto = "off"]
       [] OTHER -> w

tcp_handle(ack, win, fin) ==
  /\ conn.state # "FREE"
  /\ \E w \in Ack(world, ack, win) :
       IF fin THEN \E out \in Outcomes : Becomes([PeerFin(w, out) EXCEPT !.p.fins = 0])
       ELSE Becomes(AckState(w, ack))
  /\ UNCHANGED written

\* What the peer may acknowledge: something from snd_una on up to what it has,
\* or, out of order, something older.
PeerSends ==
  \E off \in -OldAcks .. (PeerNext - conn.una) % Mod, win \in Windows :
    \/ tcp_handle((conn.una + off) % Mod, win, FALSE)
    \/ peer.fins > 0 /\ tcp_handle((conn.una + off) % Mod, win, TRUE)

-----------------------------------------------------------------------------
(* tcp_tick()                                                              *)

\* What a retransmission of data sends, in one segment.
RtoLen(c) == MinOf(InFlight(c), Len(c.sndb))

GiveUp(c) == c.tries >= R2Data

Retry_Uncounted(c) == c
Retry(c) == [c EXCEPT !.tries = @ + 1]

tcp_tick_rto ==
  LET c == conn
      fin == c.state = "LAST_ACK" \/ (c.state \in {"FIN_WAIT_1", "CLOSING"} /\ c.sndb = <<>>)
      loss == Retry(tcp_loss_window(c, RtoLen(c)))
  IN /\ c.state \notin {"FREE", "TIME_WAIT"}
     /\ c.rto = "on"
     /\ \E out \in Outcomes :
          IF GiveUp(c)
          THEN Becomes([world EXCEPT !.c.state = "FREE", !.c.rto = "off", !.c.persist = "off"])
          ELSE IF fin
          THEN Becomes([PutFin(world, (c.nxt - 1) % Mod, out) EXCEPT !.c = Retry(c)])
          ELSE IF c.sndb # <<>>
          THEN Becomes([Put(world, c.una, Buffered(c, 0, RtoLen(c)), out) EXCEPT !.c = loss])
          ELSE Becomes([world EXCEPT !.c.rto = "off"])
     /\ UNCHANGED written

\* A probe of a closed window sends the byte at snd_una.
tcp_tick_persist ==
  LET c == conn
  IN /\ c.state \notin {"FREE", "TIME_WAIT"}
     /\ c.persist = "on"
     /\ \E out \in Outcomes :
          IF c.win > 0 \/ Len(c.sndb) <= InFlight(c)
          THEN Becomes([world EXCEPT !.c.persist = "off"])
          ELSE Becomes(Put(world, c.una, Buffered(c, 0, 1), out))
     /\ UNCHANGED written

\* The end of TIME_WAIT.
tcp_tick_timewait ==
  /\ conn.state = "TIME_WAIT"
  /\ Becomes([world EXCEPT !.c.state = "FREE"])
  /\ UNCHANGED written

Next ==
  \/ \E n \in 1 .. Mss : tcp_send(n)
  \/ \E when \in Closes : tcp_close(when)
  \/ PeerSends
  \/ tcp_tick_rto
  \/ tcp_tick_persist
  \/ tcp_tick_timewait

Spec == Init /\ [][Next]_vars

\* The peer acknowledges all it has, with an open window.
PeerAcks == \E win \in Windows \ {0} : tcp_handle(PeerNext, win, FALSE)

\* The tick runs the timers, and a peer that is there keeps acknowledging
\* (segments may still be lost every time).
FairSpec ==
  Spec /\ WF_vars(tcp_tick_rto) /\ WF_vars(tcp_tick_persist) /\ WF_vars(PeerAcks)

-----------------------------------------------------------------------------
(* Properties.                                                             *)

\* The positions a .. b - 1 of the written stream.
Positions(a, b) == [i \in 1 .. b - a |-> a + i - 1]

\* What was acknowledged of the stream.
AckedBytes == written - Len(conn.sndb)

\* The peer gets exactly the written stream, from its beginning and without a
\* gap, a repetition or a byte that was never written, whatever is lost, sent
\* again by either timer or by duplicate acknowledgements; and sndb holds the
\* bytes from snd_una on (tcp_put_pkt of sndb + offset at snd_una + offset).
StreamSent ==
  /\ peer.stream = Positions(0, Len(peer.stream)) /\ Len(peer.stream) <= written
  /\ conn.sndb = Positions(AckedBytes, written)
  /\ conn.state = "ESTABLISHED" => conn.una = (Isn + AckedBytes) % Mod

\* What was sent and is not acknowledged has the retransmission timer running,
\* through losses, fast retransmission, window changes and the own FIN.
TimerArmed ==
  conn.state \notin {"FREE", "TIME_WAIT"} /\ InFlight(conn) > 0 => conn.rto = "on"

\* New data is sent only inside the window that the peer advertised last and
\* the congestion window (tcp_xmit_pending).
WindowRespected ==
  [][conn'.state = "ESTABLISHED" /\ tcp_seq_after(conn'.nxt, conn.nxt)
       => InFlight(conn') <= SendWindow(conn')]_vars

\* In FIN_WAIT_2 the own FIN has been acknowledged.
FinAcked == conn.state = "FIN_WAIT_2" => conn.una = conn.nxt

\* Whatever was accepted is acknowledged in the end, or the connection is
\* given up after R2 retransmissions.
Drains == conn.sndb # <<>> ~> (conn.sndb = <<>> \/ conn.state = "FREE")

\* A close always comes to an end: the own FIN is acknowledged or given up, in
\* whatever order data, FINs and acknowledgements of both sides cross.
FinEnds ==
  conn.state \in {"FIN_WAIT_1", "CLOSING", "LAST_ACK"}
    ~> conn.state \in {"FIN_WAIT_2", "TIME_WAIT", "FREE"}

=============================================================================
