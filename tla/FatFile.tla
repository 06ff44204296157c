------------------------------ MODULE FatFile -------------------------------
(***************************************************************************)
(* Reading a file of a FAT16 volume (fs/fat16.c): the cluster chain, the   *)
(* LRU cache of FAT sectors, and the copy loop over the sectors of a       *)
(* cluster.  A byte of the data area is named by its cluster and its place *)
(* in it.  Reads of the disk may fail.  Calls are not interrupted; they    *)
(* are cut into steps at the turns of their loops.                         *)
(***************************************************************************)
EXTENDS Integers, Sequences

CONSTANTS
  Fat,        \* the FAT: a function from clusters to their next value
  Files,      \* directory entries: records [cluster, size]
  EntriesPer, \* FAT entries in a sector (256)
  SecSize,    \* bytes of a sector (512)
  Spc,        \* sectors of a cluster
  CacheSlots, \* FC_SLOTS
  MaxRead,    \* bound: bytes of one read
  MaxOff,     \* bound: where a read starts
  Crossing    \* whether a read may cross the end of a cluster: a set of BOOLEANs

VARIABLES
  fcache, \* fcache[]: records [sec, data], data the sector its bytes come from; or Invalid
  lru,    \* the valid slots, the one with the oldest tick first
  call,   \* the local variables of fat16_read_file()
  failed  \* "yes" when a disk read failed during the call

vars == <<fcache, lru, call, failed>>

FAT_EOF_MIN == 65528
FAT_BAD == 65527
Junk == <<0, 0>>
Invalid == [sec |-> -1, data |-> -1]
Slot == 1 .. CacheSlots
cbytes == Spc * SecSize
MinOf(a, b) == IF a < b THEN a ELSE b

Idle == [pc |-> "idle", file |-> [cluster |-> 0, size |-> 0], off |-> 0, len |-> 0, c |-> 0,
         skip |-> 0, pin |-> 0, rem |-> 0, got |-> <<>>, rc |-> 0]

\* fat16_mount() empties the cache.
Init ==
  /\ fcache = [i \in Slot |-> Invalid]
  /\ lru = <<>>
  /\ call = Idle
  /\ failed = "no"

-----------------------------------------------------------------------------
(* fat_sector() and fat_next()                                             *)

Without(s, k) == [i \in 1 .. Len(s) - 1 |-> IF i < k THEN s[i] ELSE s[i + 1]]

\* Slot i has the newest tick.
Touched(i) ==
  LET at == {k \in DOMAIN lru : lru[k] = i}
  IN  Append(IF at = {} THEN lru ELSE Without(lru, CHOOSE k \in at : TRUE), i)

\* Slot i takes sector rel.
Filled(i, rel) == [fcache EXCEPT ![i] = [sec |-> rel, data |-> rel]]

\* After a read into slot i that failed, before a byte was transferred.
Unread(i, rel) == fcache

\* The slot that is given up: the first invalid one, else the oldest.
Victim ==
  IF \E i \in Slot : fcache[i] = Invalid
  THEN CHOOSE i \in Slot : fcache[i] = Invalid /\ \A j \in 1 .. i - 1 : fcache[j] # Invalid
  ELSE Head(lru)

\* The scan stops at the first invalid slot.
Cached(rel) ==
  {i \in Slot : fcache[i].sec = rel /\ \A j \in 1 .. i - 1 : fcache[j] # Invalid}

Entries == {Fat[c] : c \in DOMAIN Fat} \cup {FAT_EOF_MIN}

\* fat_next(clu) returns next: a hit, a sector that is read, or a read that fails
\* and counts as the end of the chain.
fat_next(clu, next) ==
  LET rel == clu \div EntriesPer
      entry(data) == Fat[data * EntriesPer + (clu % EntriesPer)]
  IN IF clu < 2 \/ clu >= FAT_BAD
     THEN next = FAT_EOF_MIN /\ UNCHANGED <<fcache, lru, failed>>
     ELSE \/ \E i \in Cached(rel) :
               /\ lru' = Touched(i)
               /\ next = entry(fcache[i].data)
               /\ UNCHANGED <<fcache, failed>>
          \/ /\ Cached(rel) = {}
             /\ fcache' = Filled(Victim, rel)
             /\ lru' = Touched(Victim)
             /\ next = entry(fcache'[Victim].data)
             /\ UNCHANGED failed
          \/ /\ Cached(rel) = {}
             /\ failed' = "yes"
             /\ fcache' = Unread(Victim, rel)
             /\ next = FAT_EOF_MIN
             /\ UNCHANGED lru

-----------------------------------------------------------------------------
(* fat16_read_file()                                                       *)

Return(rc) == call' = [call EXCEPT !.pc = "done", !.rc = rc]

fat16_read_file(f, off, len) ==
  LET n == MinOf(len, f.size - off)
      new == [Idle EXCEPT !.file = f, !.off = off]
  IN /\ call.pc = "idle"
     /\ (off % cbytes) + n > cbytes => TRUE \in Crossing
     /\ call' = IF off >= f.size \/ len = 0 THEN [new EXCEPT !.pc = "done"]
                ELSE [new EXCEPT !.pc = "skip", !.len = n, !.rem = n, !.c = f.cluster,
                                 !.skip = off \div cbytes, !.pin = off % cbytes]
     /\ failed' = "no"
     /\ UNCHANGED <<fcache, lru>>

\* The clusters before the offset are skipped.
SkipCluster ==
  /\ call.pc = "skip"
  /\ \/ /\ call.skip > 0
        /\ \E next \in Entries :
             /\ fat_next(call.c, next)
             /\ IF next < 2 \/ next >= FAT_EOF_MIN THEN Return(-1)
                ELSE call' = [call EXCEPT !.c = next, !.skip = @ - 1]
     \/ /\ call.skip = 0
        /\ call' = [call EXCEPT !.pc = "cluster"]
        /\ UNCHANGED <<fcache, lru, failed>>

\* The outer loop: done, a broken chain, or the sectors of this cluster.
EnterCluster ==
  /\ call.pc = "cluster"
  /\ IF call.rem = 0 THEN Return(call.len)
     ELSE IF call.c < 2 \/ call.c >= FAT_BAD
     THEN Return(IF call.rem < call.len THEN -1 ELSE 0)
     ELSE call' = [call EXCEPT !.pc = "sector"]
  /\ UNCHANGED <<fcache, lru, failed>>

\* What one turn copies: the rest of the sector, or of the request.
Piece_Whole(pin, rem) == MinOf(SecSize, rem)
Piece(pin, rem) == MinOf(SecSize - (pin % SecSize), rem)

\* One turn of the inner loop; pin starts again at 0 at the end of the cluster,
\* which keeps the loop on this cluster.
CopySector ==
  LET n == Piece(call.pin, call.rem)
      pin == call.pin + n
      soff == call.pin % SecSize
      bytes == [i \in 1 .. n |-> IF soff + i <= SecSize THEN <<call.c, call.pin + i - 1>> ELSE Junk]
  IN /\ call.pc = "sector"
     /\ call.rem > 0
     /\ \/ /\ call' = [call EXCEPT !.got = @ \o bytes, !.rem = @ - n,
                                   !.pin = IF pin >= cbytes THEN 0 ELSE pin]
           /\ UNCHANGED failed
        \/ failed' = "yes" /\ Return(-1)
     /\ UNCHANGED <<fcache, lru>>

NextCluster ==
  /\ call.pc = "sector"
  /\ call.rem = 0
  /\ \E next \in Entries :
       /\ fat_next(call.c, next)
       /\ call' = [call EXCEPT !.pc = "cluster", !.pin = 0, !.c = next]

\* The caller takes the result.
Result ==
  /\ call.pc = "done"
  /\ call' = Idle
  /\ failed' = "no"
  /\ UNCHANGED <<fcache, lru>>

Next ==
  \/ \E f \in Files, off \in 0 .. MaxOff, len \in 0 .. MaxRead : fat16_read_file(f, off, len)
  \/ SkipCluster \/ EnterCluster \/ CopySector \/ NextCluster \/ Result

Spec == Init /\ [][Next]_vars

-----------------------------------------------------------------------------
(* Properties.                                                             *)

\* The clusters of a file in order, as far as its chain goes: no more than it
\* has bytes.
Chain(f) ==
  LET at[k \in 0 .. f.size] == IF k = 0 THEN f.cluster
                               ELSE IF at[k - 1] \in DOMAIN Fat THEN Fat[at[k - 1]] ELSE FAT_EOF_MIN
  IN at

Intact(f) == \A k \in 0 .. (f.size - 1) \div cbytes : Chain(f)[k] \in DOMAIN Fat

\* Byte i of a file.
ByteOf(f, i) == <<Chain(f)[i \div cbytes], i % cbytes>>

\* What fat16_read_file() returns is the file: the bytes from off on, as many as
\* were asked for and the file has, whatever FAT sectors were evicted from the
\* cache and read again; an error only after the disk failed or on a chain that
\* ends early.
ReadsFile ==
  call.pc = "done" /\ Intact(call.file) =>
    \/ /\ call.rc = call.len
       /\ call.got = [i \in 1 .. call.len |-> ByteOf(call.file, call.off + i - 1)]
    \/ call.rc = -1 /\ failed = "yes"

\* A valid slot of the cache holds the sector it is looked up by, after failed
\* reads too, and no sector has two slots.
CacheTrue ==
  \A i \in Slot : fcache[i] # Invalid =>
    /\ fcache[i].data = fcache[i].sec
    /\ \A j \in Slot \ {i} : fcache[j].sec # fcache[i].sec
    /\ \E k \in DOMAIN lru : lru[k] = i

=============================================================================
