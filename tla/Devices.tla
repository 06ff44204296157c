------------------------------ MODULE Devices -------------------------------
(***************************************************************************)
(* The drivers of the network card, the keyboard and the disk, for rings,  *)
(* batches and disks of any size.  They share no state.                    *)
(***************************************************************************)
EXTENDS Integers, Sequences

CONSTANTS
  RX_N, TX_N, E1000_BATCH_LIMIT, MaxPackets, Senders, MaxFrames,  \* E1000
  Readers, RingSize, MaxKeys,                                     \* Keyboard
  Sectors, Table, MaxCmd, MaxLen, FailsAt                         \* Ide

ASSUME DevicesAssumption ==
  /\ RX_N \in Nat /\ RX_N > 1 /\ TX_N \in Nat /\ TX_N > 0 /\ E1000_BATCH_LIMIT \in Nat
  /\ RingSize \in Nat /\ RingSize > 1
  /\ Sectors \in Nat /\ MaxCmd \in Nat \ {0} /\ MaxLen \in Nat
  /\ \A i \in DOMAIN Table : Table[i].lba \in Nat /\ Table[i].cnt \in Nat

VARIABLES
  rx, rdh, rdt, rx_last, received, handled,                          \* E1000
  tx, tdh, tdt, tx_next, framed, sent, slow, crossed, ping,
  kq, kh, kt, ks, e1_left, shift, ctrl, wire, held, pressed, paused, \* Keyboard
  kaccepted, got, serial, reading,
  disk, mem, io                                                      \* Ide

Nic == INSTANCE E1000
Kbd == INSTANCE Keyboard WITH q <- kq, h <- kh, t <- kt, accepted <- kaccepted
Disk == INSTANCE Ide

\* e1000_poll() gives every packet to the stack once, in the order of arrival,
\* and when all have been handled the card has a descriptor for the next.
HandledOnce == Nic!HandledOnce /\ Nic!RoomWhenDrained

\* A frame leaves as it was written, in order: e1000_tx_alloc() hands out no
\* buffer that the card has yet to read, also to a ping or a resolution, which
\* send with interrupts on.  Only a send begun inside another one may spoil it.
SentAsWritten == Nic!SentAsWritten

\* "Every byte is delivered to exactly one reader" (the comment at kread()), with
\* one reader: what it got and what the ring holds are the bytes that kh() queued.
DeliveredOnce == Kbd!DeliveredOnce

\* kh() leaves no modifier set whose keys are all up (before Pause is pressed).
NoStuckModifier == Kbd!NoStuckModifier

\* A transfer of ide.c that succeeds has moved every sector to or from its place
\* in the buffer, over several commands and after a retry; nothing else is
\* touched, and no transfer through a partition reaches a sector outside of it.
Transferred == Disk!Transferred /\ Disk!InPartition

=============================================================================
