------------------------------- MODULE Sender -------------------------------
(***************************************************************************)
(* The sending half of a TCP connection (TcpSend) for buffers, segments    *)
(* and streams of any size.  The connection is not closed: no FIN crosses  *)
(* its data.                                                               *)
(***************************************************************************)
EXTENDS Integers

CONSTANTS
  SeqBits, Isn, TxBuf, TxMss, TxRetries, WriteLen, Windows, TxOutcomes, OldAcks

\* A buffer is far smaller than the range of sequence numbers.
ASSUME SenderAssumption ==
  /\ 2 ^ SeqBits \in Nat /\ Isn \in 0 .. 2 ^ SeqBits - 1
  /\ TxBuf \in Nat \ {0} /\ TxBuf < 2 ^ SeqBits \div 2
  /\ TxMss \in Nat \ {0} /\ TxRetries \in Nat /\ WriteLen \in Nat
  /\ Windows \subseteq Nat /\ TxOutcomes \subseteq {"delivered", "lost", "failed"}
  /\ OldAcks \in 0 .. 1

VARIABLES wconn, wpeer, written

Write == INSTANCE TcpSend WITH
  BufSize <- TxBuf, Mss <- TxMss, R2Data <- TxRetries, Outcomes <- TxOutcomes,
  Closes <- {}, PeerFins <- 0, conn <- wconn, peer <- wpeer

\* The peer gets exactly the written stream, whatever is lost or sent again by
\* either timer or by duplicate acknowledgements; sndb starts at snd_una, and
\* what is not acknowledged has the retransmission timer running.
StreamSent == Write!StreamSent /\ Write!TimerArmed

\* New data is sent only inside the window that the peer advertised last and
\* the congestion window (tcp_xmit_pending()).
WindowRespected == Write!WindowRespected

=============================================================================
