----------------------------- MODULE MCServices -----------------------------
(***************************************************************************)
(* Small instances of the file, device and socket components for TLC, side *)
(* by side: `part' names the component that a behaviour runs, the others   *)
(* stay in their initial state.  The components share no state.  The table *)
(* of TCP connections, the devices, the descriptors, the FAT volume, the   *)
(* two halves of a connection and the UDP sockets are the instances that   *)
(* this module extends; the connections of the table are those of a server *)
(* program and the kernel's test service with two clients.                 *)
(***************************************************************************)
EXTENDS TcpTable, Devices, Vfs, Volume, Sender, Receiver, Datagrams, TLC

CONSTANTS fileA, fileB, clientA, clientB, reader

Clients == {clientA, clientB}

VARIABLE part

fdVars == <<ffds, fs, handles, de, socks>>
dupVars == <<dfds, dfs, dhandles, dde, dsocks>>
fatVars == <<fcache, lru, call, failed>>
ideVars == <<disk, mem, io>>
kbdVars == <<kq, kh, kt, ks, e1_left, shift, ctrl, wire, held, pressed, paused,
             kaccepted, got, serial, reading>>
nicVars == <<rx, rdh, rdt, rx_last, received, handled,
             tx, tdh, tdt, tx_next, framed, sent, slow, crossed, ping>>
udpVars == <<usocks, dns, broken>>
rxVars == <<rstate, rcv_nxt, rxb, ooo, ooo_bytes, adv_win, read>>
writeVars == <<wconn, wpeer, written>>

----------------------------------------------------------------------------
\* The sizes of the files.
SomeSizes == [f \in {fileA, fileB} |-> IF f = fileA THEN 1 ELSE 2]
SomeOffsets == {-1, 1, 2}

\* A chain out of order, a whole cluster, one that ends early, a cycle, and none.
SomeFat ==
  2 :> 5 @@ 3 :> 4 @@ 4 :> 3 @@ 5 :> 7 @@ 6 :> 65535 @@ 7 :> 65528 @@ 8 :> 65527 @@ 9 :> 0
SomeFatFiles ==
  {[cluster |-> 2, size |-> 11], [cluster |-> 6, size |-> 3], [cluster |-> 8, size |-> 7],
   [cluster |-> 3, size |-> 12], [cluster |-> 0, size |-> 5]}

\* Two partitions, one that reaches past the disk, an empty entry.
SomeTable ==
  <<[type |-> 6, lba |-> 1, cnt |-> 4], [type |-> 6, lba |-> 5, cnt |-> 3],
    [type |-> 6, lba |-> 5, cnt |-> 2], [type |-> 0, lba |-> 0, cnt |-> 0]>>

ClientSymmetry == Permutations(Clients)

AllInit ==
  /\ part \in {"fd", "dup", "fat", "ide", "kbd", "rxring", "txring", "udp", "tcp", "rx", "write"}
  /\ Init /\ Fds!Init /\ Dup!Init /\ FatFs!Init /\ Disk!Init /\ Kbd!Init /\ Nic!Init
  /\ Dgram!Init /\ Rx!Init /\ Write!Init
  /\ part # "write" => wconn.win = 4

FdsStep ==
  /\ part = "fd" /\ Fds!Next
  /\ UNCHANGED <<part, dupVars, fatVars, ideVars, kbdVars, nicVars, udpVars, vars, rxVars, writeVars>>
DupStep ==
  /\ part = "dup" /\ Dup!Next
  /\ UNCHANGED <<part, fdVars, fatVars, ideVars, kbdVars, nicVars, udpVars, vars, rxVars, writeVars>>
FatFsStep ==
  /\ part = "fat" /\ FatFs!Next
  /\ UNCHANGED <<part, fdVars, dupVars, ideVars, kbdVars, nicVars, udpVars, vars, rxVars, writeVars>>
DiskStep ==
  /\ part = "ide" /\ Disk!Next
  /\ UNCHANGED <<part, fdVars, dupVars, fatVars, kbdVars, nicVars, udpVars, vars, rxVars, writeVars>>
KbdStep ==
  /\ part = "kbd" /\ Kbd!Next
  /\ UNCHANGED <<part, fdVars, dupVars, fatVars, ideVars, nicVars, udpVars, vars, rxVars, writeVars>>
NicStep ==
  /\ \/ part = "rxring" /\ Nic!RxNext
     \/ part = "txring" /\ Nic!TxNext
  /\ UNCHANGED <<part, fdVars, dupVars, fatVars, ideVars, kbdVars, udpVars, vars, rxVars, writeVars>>
DgramStep ==
  /\ part = "udp" /\ Dgram!Next
  /\ UNCHANGED <<part, fdVars, dupVars, fatVars, ideVars, kbdVars, nicVars, vars, rxVars, writeVars>>
TcpStep ==
  /\ part = "tcp" /\ Next
  /\ UNCHANGED <<part, fdVars, dupVars, fatVars, ideVars, kbdVars, nicVars, udpVars, rxVars, writeVars>>
RxStep ==
  /\ part = "rx" /\ Rx!Next
  /\ UNCHANGED <<part, fdVars, dupVars, fatVars, ideVars, kbdVars, nicVars, udpVars, vars, writeVars>>
WriteStep ==
  /\ part = "write" /\ Write!Next
  /\ UNCHANGED <<part, fdVars, dupVars, fatVars, ideVars, kbdVars, nicVars, udpVars, vars, rxVars>>

AllNext ==
  \/ FdsStep \/ DupStep \/ FatFsStep \/ DiskStep \/ KbdStep
  \/ NicStep \/ DgramStep \/ TcpStep \/ RxStep \/ WriteStep

allVars == <<part, fdVars, dupVars, fatVars, ideVars, kbdVars, nicVars, udpVars, vars, rxVars, writeVars>>
AllSpec == AllInit /\ [][AllNext]_allVars

=============================================================================
