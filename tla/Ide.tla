-------------------------------- MODULE Ide ---------------------------------
(***************************************************************************)
(* Sector transfers of drivers/ide.c: partition bounds, commands of at     *)
(* most 255 sectors, the transfer sector by sector, and the one retry of a *)
(* command.  Memory and disk hold sectors told apart by where they started *)
(* out: <<"disk", lba>> and <<"mem", index>>.                              *)
(***************************************************************************)
EXTENDS Integers, Sequences

CONSTANTS
  Sectors, \* of the disk, from IDENTIFY
  Table,   \* the partition table: a sequence of records [type, lba, cnt]
  MaxCmd,  \* sectors of one command (255)
  MaxLen,  \* bound: sectors of one transfer
  FailsAt  \* where a command may fail: at sector 0 of it, or also later

VARIABLES
  disk, \* what the sectors hold
  mem,  \* what the buffer of the caller and what follows it hold
  io    \* the call in progress

vars == <<disk, mem, io>>

Lba == 0 .. Sectors - 1
Index == 0 .. 2 * MaxLen - 1
Parts == DOMAIN Table

Idle == [pc |-> "idle", part |-> 0, l |-> 0, n |-> 0, wr |-> "read",
         lba |-> 0, left |-> 0, c |-> 0, s |-> 0, b |-> 0, t |-> 0, rc |-> 0]

Init ==
  /\ disk = [x \in Lba |-> <<"disk", x>>]
  /\ mem = [x \in Index |-> <<"mem", x>>]
  /\ io = Idle

-----------------------------------------------------------------------------
\* mbr_scan(): the entries that become devices.
Registered(p) ==
  /\ p.type # 0 /\ p.cnt # 0
  /\ p.lba <= Sectors /\ p.cnt <= Sectors - p.lba

\* part_io(): a request past the end of the partition is refused.
part_io(i, l, n, wr) ==
  LET p == Table[i]
  IN /\ io.pc = "idle"
     /\ Registered(p)
     /\ io' = IF l >= p.cnt \/ n > p.cnt - l THEN [Idle EXCEPT !.pc = "done", !.rc = -1]
              ELSE [Idle EXCEPT !.pc = "chunk", !.part = i, !.l = l, !.n = n, !.wr = wr,
                                !.lba = p.lba + l, !.left = n]
     /\ UNCHANGED <<disk, mem>>

\* One turn of the loop of dsk_io(): the next command.
dsk_io ==
  LET c == IF io.left > MaxCmd THEN MaxCmd ELSE io.left
  IN /\ io.pc = "chunk"
     /\ io' = IF io.left = 0 \/ io.rc # 0 THEN [io EXCEPT !.pc = "done"]
              ELSE [io EXCEPT !.pc = "rw", !.c = c, !.s = 0, !.t = 0, !.b = io.n - io.left]
     /\ UNCHANGED <<disk, mem>>

\* The command has ended: dsk_io() goes on behind it.
EndCommand_Stay(rc) == [io EXCEPT !.pc = "chunk", !.rc = rc, !.left = @ - io.c]
EndCommand(rc) == [io EXCEPT !.pc = "chunk", !.rc = rc, !.lba = @ + io.c, !.left = @ - io.c]

\* rw(): the next sector of the command is transferred, and b moves on.
rw_sector ==
  /\ io.pc = "rw"
  /\ io.s < io.c
  /\ IF io.wr = "write"
     THEN disk' = [disk EXCEPT ![io.lba + io.s] = mem[io.b]] /\ UNCHANGED mem
     ELSE mem' = [mem EXCEPT ![io.b] = disk[io.lba + io.s]] /\ UNCHANGED disk
  /\ io' = [io EXCEPT !.s = @ + 1, !.b = @ + 1]

\* rw(): the device reports an error; the command is tried once more.
rw_error ==
  /\ io.pc = "rw"
  /\ io.s < io.c
  /\ io.s = 0 \/ FailsAt = "any"
  /\ io' = IF io.t = 0 THEN [io EXCEPT !.t = 1, !.s = 0] ELSE EndCommand(-1)
  /\ UNCHANGED <<disk, mem>>

rw_end ==
  /\ io.pc = "rw"
  /\ io.s = io.c
  /\ io' = EndCommand(0)
  /\ UNCHANGED <<disk, mem>>

\* The caller takes the result; the next call starts on a fresh disk and buffer.
Result ==
  /\ io.pc = "done"
  /\ disk' = [x \in Lba |-> <<"disk", x>>]
  /\ mem' = [x \in Index |-> <<"mem", x>>]
  /\ io' = Idle

Next ==
  \/ \E i \in Parts, l \in 0 .. Sectors, n \in 0 .. MaxLen, wr \in {"read", "write"} :
       part_io(i, l, n, wr)
  \/ dsk_io \/ rw_sector \/ rw_error \/ rw_end \/ Result

Spec == Init /\ [][Next]_vars

-----------------------------------------------------------------------------
(* Properties.                                                             *)

\* A transfer that succeeds has moved sector l + k of the partition to or from
\* place k of the buffer, for every k below n, over several commands and after
\* a retry; nothing else is touched, in memory or on the disk.
Transferred ==
  io.pc = "done" /\ io.rc = 0 =>
    LET first == Table[io.part].lba + io.l
        moved == IF io.n = 0 THEN {} ELSE 0 .. io.n - 1
    IN IF io.wr = "read"
       THEN mem = [x \in Index |-> IF x \in moved THEN <<"disk", first + x>> ELSE <<"mem", x>>]
       ELSE disk = [x \in Lba |-> IF x - first \in moved THEN <<"mem", x - first>> ELSE <<"disk", x>>]

\* No transfer through a partition reaches a sector outside of it or of the disk.
InPartition ==
  io.pc = "rw" /\ io.s < io.c =>
    /\ io.lba + io.s \in Lba
    /\ io.lba + io.s \in Table[io.part].lba .. Table[io.part].lba + Table[io.part].cnt - 1

=============================================================================
