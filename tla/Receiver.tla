------------------------------ MODULE Receiver ------------------------------
(***************************************************************************)
(* The receiving half of a TCP connection (TcpReceive) for buffers, slots, *)
(* segments and streams of any size.  Every acknowledgement can be         *)
(* submitted.                                                              *)
(***************************************************************************)
EXTENDS Integers

CONSTANTS RxBits, RxIsn, RxBuf, RxMss, RxSlots, RxStream, RxMaxLen, RxBack

\* A buffer and the age of a segment are far smaller than the range of
\* sequence numbers.
ASSUME ReceiverAssumption ==
  /\ 2 ^ RxBits \in Nat /\ RxIsn \in 0 .. 2 ^ RxBits - 1
  /\ RxBuf \in Nat \ {0} /\ RxMss \in Nat \ {0}
  /\ RxSlots \in Nat /\ RxStream \in Nat /\ RxMaxLen \in Nat /\ RxBack \in Nat
  /\ 2 * RxBuf + RxBack + 2 < 2 ^ RxBits \div 2

VARIABLES rstate, rcv_nxt, rxb, ooo, ooo_bytes, adv_win, read

Rx == INSTANCE TcpReceive WITH
  SeqBits <- RxBits, Isn <- RxIsn, BufSize <- RxBuf, Mss <- RxMss, Slots <- RxSlots,
  StreamLen <- RxStream, MaxLen <- RxMaxLen, Back <- RxBack, Sent <- {TRUE}, state <- rstate

\* The receive buffer holds the bytes of the stream that come next, each once
\* and in order, however the segments overlapped, and rcv_nxt counts them; no
\* byte is cached twice, and the end is reported only after every byte
\* (tcp_accept_data(), tcp_queue_ooo(), tcp_merge_ooo()).
StreamIntact == Rx!StreamIntact /\ Rx!CacheAccounted /\ Rx!NoEarlyEof

\* A window that was advertised is honoured: bytes in sequence up to its right
\* edge are accepted, although the rule against small windows takes it back.
\* And the peer is not left with a closed window while there is room for a
\* segment (tcp_advertise_window(), "no deadlock").
WindowHonoured == Rx!WindowHonoured /\ Rx!NoClosedWindow

=============================================================================
