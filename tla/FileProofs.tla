----------------------------- MODULE FileProofs -----------------------------
(***************************************************************************)
(* The descriptor table, for every number of descriptors, FAT handles,     *)
(* sockets and files; and reading a file, for every FAT and every size of  *)
(* sector, cluster and cache.                                              *)
(***************************************************************************)
EXTENDS Vfs, Volume, Sequences, WellFoundedInduction, TLAPS

-----------------------------------------------------------------------------
(* The lowest free descriptor, handle or socket.                           *)

LEMMA LeastNumber ==
  ASSUME NEW T, T \subseteq Nat, T # {}
  PROVE  \E m \in T : \A k \in T : m <= k
<1>1. PICK m \in T : \A y \in T : ~(<<y, m>> \in OpToRel(<, Nat))
  BY NatLessThanWellFounded, WFMin, Zenon
<1>2. ASSUME NEW k \in T, k < m PROVE <<k, m>> \in OpToRel(<, Nat)
  BY <1>2 DEF OpToRel
<1>3. \A k \in T : ~(k < m)
  BY <1>1, <1>2, Zenon
<1>4. \A k \in T : m <= k
  BY <1>3
<1> QED BY <1>4, Zenon

LEMMA LowestIn ==
  ASSUME NEW S, S \subseteq Nat, S # {}
  PROVE  Fds!Lowest(S) \in S /\ \A y \in S : Fds!Lowest(S) <= y
  BY LeastNumber, Zenon DEF Fds!Lowest

LEMMA DupLowestIn ==
  ASSUME NEW S, S \subseteq Nat, S # {}
  PROVE  Dup!Lowest(S) \in S
  BY LeastNumber, Zenon DEF Dup!Lowest

-----------------------------------------------------------------------------
(* Programs that share no file_t.                                          *)

FileRec ==
  [kind : {"dev", "fat", "sock"}, private : Nat \cup {Null}, pos : Fds!Pos, nonblock : {"no", "yes"}]

\* Descriptor fd of the pointers p to the files f is an open file of this kind.
Uses(p, f, fd, kind) == p[fd] # Null /\ f[fd].kind = kind

\* The resources in use are those of the open files of a kind, one each.
Holds(p, f, kind, used) ==
  /\ \A fd \in Fds!Fd : Uses(p, f, fd, kind) => f[fd].private \in used
  /\ \A r \in used : \E fd \in Fds!Fd : Uses(p, f, fd, kind) /\ f[fd].private = r
  /\ \A fd, gd \in Fds!Fd :
       Uses(p, f, fd, kind) /\ Uses(p, f, gd, kind) /\ f[fd].private = f[gd].private => fd = gd

\* The inductive invariant: a descriptor has the element of fs[] with its own
\* index, and handles and sockets are held as said.
FdInv ==
  /\ ffds \in [Fds!Fd -> Fds!Fd \cup {Null}] /\ fs \in [Fds!Fd -> FileRec \cup {Null}]
  /\ handles \subseteq Fds!Handle /\ de \in [Fds!Handle -> Files \cup {Null}] /\ socks \subseteq Fds!Sock
  /\ \A fd \in Fds!Fd : ffds[fd] # Null => ffds[fd] = fd /\ fs[fd] \in FileRec
  /\ \A fd \in Fds!Fd : Uses(ffds, fs, fd, "fat") => de[fs[fd].private] \in Files
  /\ Holds(ffds, fs, "fat", handles) /\ Holds(ffds, fs, "sock", socks)

LEMMA NullIsNone ==
  Null \notin Fds!Fd /\ Null \notin Fds!Handle /\ Null \notin Fds!Sock
  BY VfsAssumption DEF Fds!Fd, Fds!Handle, Fds!Sock

LEMMA InNat ==
  Fds!Fd \subseteq Nat /\ Fds!Handle \subseteq Nat /\ Fds!Sock \subseteq Nat
  BY VfsAssumption DEF Fds!Fd, Fds!Handle, Fds!Sock

\* A closed descriptor is opened.
LEMMA HoldsOpened ==
  ASSUME NEW p \in [Fds!Fd -> Fds!Fd \cup {Null}], NEW f \in [Fds!Fd -> FileRec \cup {Null}],
         NEW fd \in Fds!Fd, p[fd] = Null, NEW file \in FileRec, NEW kind, NEW used,
         Holds(p, f, kind, used),
         file.kind = kind => file.private \notin used
  PROVE  Holds([p EXCEPT ![fd] = fd], [f EXCEPT ![fd] = file], kind,
               IF file.kind = kind THEN used \cup {file.private} ELSE used)
<1> DEFINE q == [p EXCEPT ![fd] = fd]
           g == [f EXCEPT ![fd] = file]
<1>1. /\ \A x \in Fds!Fd \ {fd} : q[x] = p[x] /\ g[x] = f[x]
      /\ q[fd] # Null /\ g[fd] = file
  BY NullIsNone, Zenon
<1>2. /\ \A x \in Fds!Fd \ {fd} : Uses(q, g, x, kind) <=> Uses(p, f, x, kind)
      /\ Uses(q, g, fd, kind) <=> file.kind = kind
      /\ ~Uses(p, f, fd, kind)
  BY <1>1, Zenon DEF Uses
<1> HIDE DEF q, g
<1>3. CASE file.kind = kind
  <2>1. \A x \in Fds!Fd : Uses(q, g, x, kind) => g[x].private \in used \cup {file.private}
    BY <1>1, <1>2, <1>3, Zenon DEF Holds
  <2>2. \A r \in used \cup {file.private} :
          \E x \in Fds!Fd : Uses(q, g, x, kind) /\ g[x].private = r
    <3>1. \A r \in used : \E x \in Fds!Fd \ {fd} : Uses(p, f, x, kind) /\ f[x].private = r
      BY <1>2, Zenon DEF Holds
    <3> QED BY <1>1, <1>2, <1>3, <3>1, Zenon
  <2>3. \A x, y \in Fds!Fd :
          Uses(q, g, x, kind) /\ Uses(q, g, y, kind) /\ g[x].private = g[y].private => x = y
    <3>1. \A x \in Fds!Fd \ {fd} : Uses(q, g, x, kind) => g[x].private # file.private
      BY <1>1, <1>2, <1>3, Zenon DEF Holds
    <3>2. \A x, y \in Fds!Fd \ {fd} :
            Uses(q, g, x, kind) /\ Uses(q, g, y, kind) /\ g[x].private = g[y].private => x = y
      BY <1>1, <1>2, Zenon DEF Holds
    <3> QED BY <1>1, <3>1, <3>2, Zenon
  <2>4. Holds(q, g, kind, used \cup {file.private})
    BY <2>1, <2>2, <2>3, Zenon DEF Holds
  <2> QED BY <1>3, <2>4, Zenon DEF q, g
<1>4. CASE file.kind # kind
  <2>1. /\ \A x \in Fds!Fd : Uses(q, g, x, kind) <=> Uses(p, f, x, kind)
        /\ \A x \in Fds!Fd : Uses(p, f, x, kind) => g[x] = f[x]
    BY <1>1, <1>2, <1>4, Zenon
  <2>2. \A r \in used : \E x \in Fds!Fd : Uses(q, g, x, kind) /\ g[x].private = r
    BY <2>1, Zenon DEF Holds
  <2>3. \A x, y \in Fds!Fd :
          Uses(q, g, x, kind) /\ Uses(q, g, y, kind) /\ g[x].private = g[y].private => x = y
    <3> SUFFICES ASSUME NEW x \in Fds!Fd, NEW y \in Fds!Fd, Uses(q, g, x, kind), Uses(q, g, y, kind),
                        g[x].private = g[y].private
                 PROVE  x = y
      BY Zenon
    <3>1. Uses(p, f, x, kind) /\ Uses(p, f, y, kind) /\ f[x].private = f[y].private
      BY <2>1, Zenon
    <3> QED BY <3>1, Zenon DEF Holds
  <2>4. \A x \in Fds!Fd : Uses(q, g, x, kind) => g[x].private \in used
    BY <2>1, Zenon DEF Holds
  <2>5. Holds(q, g, kind, used)
    BY <2>2, <2>3, <2>4, Zenon DEF Holds
  <2> QED BY <1>4, <2>5, Zenon DEF q, g
<1> QED BY <1>3, <1>4, Zenon

\* An open descriptor is closed, and the files of the others stay.
LEMMA HoldsClosed ==
  ASSUME NEW p \in [Fds!Fd -> Fds!Fd \cup {Null}], NEW f, NEW g, NEW fd \in Fds!Fd,
         \A x \in Fds!Fd \ {fd} : p[x] # Null => g[x] = f[x],
         NEW kind, NEW used, Holds(p, f, kind, used)
  PROVE  Holds([p EXCEPT ![fd] = Null], g, kind,
               IF Uses(p, f, fd, kind) THEN used \ {f[fd].private} ELSE used)
<1> DEFINE q == [p EXCEPT ![fd] = Null]
<1>1. /\ \A x \in Fds!Fd \ {fd} : q[x] = p[x]
      /\ q[fd] = Null
  BY Zenon
<1>2. /\ \A x \in Fds!Fd \ {fd} : Uses(q, g, x, kind) <=> Uses(p, f, x, kind)
      /\ \A x \in Fds!Fd \ {fd} : Uses(p, f, x, kind) => g[x] = f[x]
      /\ ~Uses(q, g, fd, kind)
  BY <1>1, Zenon DEF Uses
<1> HIDE DEF q
<1>3. CASE Uses(p, f, fd, kind)
  <2>1. Holds(q, g, kind, used \ {f[fd].private})
    BY <1>2, <1>3, Zenon DEF Holds
  <2> QED BY <1>3, <2>1, Zenon DEF q
<1>4. CASE ~Uses(p, f, fd, kind)
  <2>1. Holds(q, g, kind, used)
    BY <1>2, <1>4, Zenon DEF Holds
  <2> QED BY <1>4, <2>1, Zenon DEF q
<1> QED BY <1>3, <1>4, Zenon

\* Files whose kind and resource stay.
LEMMA HoldsKept ==
  ASSUME NEW p, NEW f, NEW g, NEW kind, NEW used, Holds(p, f, kind, used),
         \A x \in Fds!Fd : p[x] # Null => g[x].kind = f[x].kind /\ g[x].private = f[x].private
  PROVE  Holds(p, g, kind, used)
<1>1. /\ \A x \in Fds!Fd : Uses(p, g, x, kind) <=> Uses(p, f, x, kind)
      /\ \A x \in Fds!Fd : Uses(p, f, x, kind) => g[x].private = f[x].private
  BY Zenon DEF Uses
<1> QED BY <1>1, Zenon DEF Holds

\* The table as programs see it.
Obj(f, d) ==
  IF f.kind = "dev" THEN <<"dev">> ELSE IF f.kind = "fat" THEN <<"fat", d[f.private]>>
  ELSE <<"sock", f.private>>

Seen ==
  /\ Fds!Entries = [fd \in Fds!Fd |-> Fds!Entries[fd]]
  /\ \A fd \in Fds!Fd : ffds[fd] = Null => Fds!Entries[fd] = Null
  /\ \A fd \in Fds!Fd : ffds[fd] # Null =>
       Fds!Entries[fd] = [obj |-> Obj(fs[fd], de), pos |-> fs[fd].pos]

LEMMA EntriesSeen == FdInv => Seen
<1> SUFFICES ASSUME FdInv PROVE Seen
  BY Zenon
<1>1. ASSUME NEW fd \in Fds!Fd, ffds[fd] # Null PROVE Fds!ObjectOf(fd) = Obj(fs[fd], de)
  <2>1. ffds[fd] = fd /\ fs[fd] \in FileRec
    BY <1>1, Zenon DEF FdInv
  <2>2. fs[fd].kind \in {"dev", "fat", "sock"}
    BY <2>1, Zenon DEF FileRec
  <2> QED BY <1>1, <2>1, <2>2 DEF Fds!ObjectOf, Obj
<1>2. \A fd \in Fds!Fd : ffds[fd] # Null => ffds[fd] = fd
  BY Zenon DEF FdInv
<1> QED BY <1>1, <1>2, Zenon DEF Fds!Entries, Seen

LEMMA ObjectIn ==
  ASSUME NEW f \in FileRec, NEW d,
         f.kind = "fat" => d[f.private] \in Files, f.kind = "sock" => f.private \in Fds!Sock
  PROVE  Obj(f, d) \in Fds!Objects
<1>1. f.kind \in {"dev", "fat", "sock"}
  BY Zenon DEF FileRec
<1> QED BY <1>1, Zenon DEF Obj, Fds!Objects

LEMMA EntryOpen ==
  ASSUME FdInv, NEW fd \in Fds!Fd, ffds[fd] # Null
  PROVE  Fds!Entries[fd] # Null
<1>1. Fds!Entries[fd] = [obj |-> Obj(fs[fd], de), pos |-> fs[fd].pos] /\ fs[fd] \in FileRec
  BY EntriesSeen, Zenon DEF FdInv, Seen
<1>2. Obj(fs[fd], de) \in Fds!Objects
  BY <1>1, ObjectIn, Zenon DEF FdInv, Holds, Uses
<1>3. fs[fd].pos \in Fds!Pos
  BY <1>1, Zenon DEF FileRec
<1> QED BY <1>1, <1>2, <1>3, NullAssumption DEF Own!Entry

\* A step that changes what descriptor fd shows, and no other.
LEMMA EntryChanged ==
  ASSUME FdInv, FdInv', NEW fd \in Fds!Fd,
         \A x \in Fds!Fd \ {fd} : ffds'[x] = ffds[x],
         \A x \in Fds!Fd \ {fd} : ffds[x] # Null => fs'[x].kind = fs[x].kind
           /\ fs'[x].private = fs[x].private /\ fs'[x].pos = fs[x].pos,
         \A x \in Fds!Fd \ {fd} : Uses(ffds, fs, x, "fat") => de'[fs[x].private] = de[fs[x].private]
  PROVE  Fds!Entries' = [Fds!Entries EXCEPT ![fd] = Fds!Entries'[fd]]
<1>1. Seen /\ Seen'
  BY EntriesSeen, PTL
<1>2. ASSUME NEW x \in Fds!Fd \ {fd} PROVE Fds!Entries'[x] = Fds!Entries[x]
  <2>1. CASE ffds[x] = Null
    BY <1>1, <2>1, Zenon DEF Seen
  <2>2. CASE ffds[x] # Null
    <3>1. Obj(fs'[x], de') = Obj(fs[x], de)
      BY <2>2, Zenon DEF Obj, Uses
    <3>2. Fds!Entries[x] = [obj |-> Obj(fs[x], de), pos |-> fs[x].pos]
      BY <1>1, <2>2, Zenon DEF Seen
    <3>3. Fds!Entries'[x] = [obj |-> Obj(fs'[x], de'), pos |-> fs'[x].pos]
      BY <1>1, <2>2, Zenon DEF Seen
    <3>4. fs'[x].pos = fs[x].pos
      BY <2>2, Zenon
    <3> QED BY <3>1, <3>2, <3>3, <3>4, Zenon
  <2> QED BY <2>1, <2>2, Zenon
<1> DEFINE t == Fds!Entries
           u == Fds!Entries'
<1>3. t = [x \in Fds!Fd |-> t[x]] /\ u = [x \in Fds!Fd |-> u[x]]
  BY <1>1, Zenon DEF Seen
<1>4. \A x \in Fds!Fd \ {fd} : u[x] = t[x]
  BY <1>2, Zenon
<1> HIDE DEF t, u
<1>5. u = [t EXCEPT ![fd] = u[fd]]
  BY <1>3, <1>4
<1> QED BY <1>5 DEF t, u

-----------------------------------------------------------------------------
(* Opening.                                                                *)

LEMMA Allocated ==
  ASSUME FdInv, NEW file, Fds!vfs_fd_alloc(file)
  PROVE  \E fd \in Fds!Fd : /\ ffds[fd] = Null
                            /\ \A y \in Fds!Fd : y < fd => ffds[y] # Null
                            /\ ffds' = [ffds EXCEPT ![fd] = fd]
                            /\ fs' = [fs EXCEPT ![fd] = file]
<1> DEFINE fd == Fds!Lowest(Fds!FreeFds)
<1>1. Fds!FreeFds # {} /\ ffds' = [ffds EXCEPT ![fd] = fd] /\ fs' = [fs EXCEPT ![fd] = file]
  BY Zenon DEF Fds!vfs_fd_alloc
<1>2. Fds!FreeFds \subseteq Nat
  BY InNat, Zenon DEF Fds!FreeFds
<1>3. fd \in Fds!FreeFds /\ \A y \in Fds!FreeFds : fd <= y
  BY <1>1, <1>2, LowestIn, Zenon
<1> HIDE DEF fd
<1>4. fd \in Fds!Fd /\ ffds[fd] = Null
  BY <1>3, Zenon DEF Fds!FreeFds
<1>5. ASSUME NEW y \in Fds!Fd, y < fd PROVE ffds[y] # Null
  <2>1. ~(fd <= y)
    BY <1>4, <1>5, InNat
  <2> QED BY <1>3, <2>1, Zenon DEF Fds!FreeFds
<1> QED BY <1>1, <1>4, <1>5, Zenon

\* A file with its resource, which was free, becomes that of the lowest closed
\* descriptor, and FAT handles in use keep their file.
LEMMA Opened ==
  ASSUME FdInv, NEW file \in FileRec, file.pos = 0, Fds!vfs_fd_alloc(file),
         handles' = IF file.kind = "fat" THEN handles \cup {file.private} ELSE handles,
         socks' = IF file.kind = "sock" THEN socks \cup {file.private} ELSE socks,
         file.kind = "fat" => file.private \in Fds!Handle \ handles,
         file.kind = "sock" => file.private \in Fds!Sock \ socks,
         de' \in [Fds!Handle -> Files \cup {Null}],
         \A h \in handles : de'[h] = de[h],
         file.kind = "fat" => de'[file.private] \in Files
  PROVE  FdInv' /\ \E fd \in Fds!Fd, o \in Fds!Objects : Own!Open(fd, o)
<1>1. PICK fd \in Fds!Fd : /\ ffds[fd] = Null
                           /\ \A y \in Fds!Fd : y < fd => ffds[y] # Null
                           /\ ffds' = [ffds EXCEPT ![fd] = fd]
                           /\ fs' = [fs EXCEPT ![fd] = file]
  BY Allocated, Zenon
<1>2. /\ ffds \in [Fds!Fd -> Fds!Fd \cup {Null}] /\ fs \in [Fds!Fd -> FileRec \cup {Null}]
      /\ Holds(ffds, fs, "fat", handles) /\ Holds(ffds, fs, "sock", socks)
  BY Zenon DEF FdInv
<1>3. /\ ffds'[fd] = fd /\ fs'[fd] = file
      /\ \A x \in Fds!Fd \ {fd} : ffds'[x] = ffds[x] /\ fs'[x] = fs[x]
  BY <1>1, <1>2, Zenon
<1>4. FdInv'
  <2>1. ffds' \in [Fds!Fd -> Fds!Fd \cup {Null}] /\ fs' \in [Fds!Fd -> FileRec \cup {Null}]
    BY <1>1, <1>2, Zenon
  <2>2. handles' \subseteq Fds!Handle /\ socks' \subseteq Fds!Sock
    BY Zenon DEF FdInv
  <2>3. \A x \in Fds!Fd : ffds'[x] # Null => ffds'[x] = x /\ fs'[x] \in FileRec
    BY <1>3, Zenon DEF FdInv
  <2>4. \A x \in Fds!Fd : Uses(ffds', fs', x, "fat") => de'[fs'[x].private] \in Files
    <3>1. \A x \in Fds!Fd \ {fd} : Uses(ffds, fs, x, "fat") =>
            fs[x].private \in handles /\ de[fs[x].private] \in Files
      BY <1>2, Zenon DEF FdInv, Holds
    <3>2. \A x \in Fds!Fd \ {fd} : Uses(ffds', fs', x, "fat") => de'[fs'[x].private] \in Files
      BY <1>3, <3>1, ZenonT(60) DEF Uses
    <3>3. Uses(ffds', fs', fd, "fat") => de'[fs'[fd].private] \in Files
      BY <1>3, Zenon DEF Uses
    <3> QED BY <3>2, <3>3, Zenon
  <2>5. Holds(ffds', fs', "fat", handles')
    BY <1>1, <1>2, HoldsOpened, Zenon
  <2>6. Holds(ffds', fs', "sock", socks')
    BY <1>1, <1>2, HoldsOpened, Zenon
  <2> QED BY <2>1, <2>2, <2>3, <2>4, <2>5, <2>6, Zenon DEF FdInv
<1>5. Seen /\ Seen'
  BY <1>4, EntriesSeen, PTL
<1>6. Fds!Entries'[fd] = [obj |-> Obj(file, de'), pos |-> 0]
  <2>1. Fds!Entries'[fd] = [obj |-> Obj(fs'[fd], de'), pos |-> fs'[fd].pos]
    BY <1>3, <1>5, NullIsNone, ZenonT(60) DEF Seen
  <2> QED BY <1>3, <2>1, Zenon
<1>7. Fds!Entries' = [Fds!Entries EXCEPT ![fd] = Fds!Entries'[fd]]
  <2>1. \A x \in Fds!Fd \ {fd} : Uses(ffds, fs, x, "fat") => de'[fs[x].private] = de[fs[x].private]
    BY <1>2, Zenon DEF Holds
  <2> QED BY <1>3, <1>4, <2>1, EntryChanged, Zenon
<1>8. Fds!Entries[fd] = Null /\ \A y \in Fds!Fd : y < fd => Fds!Entries[y] # Null
  BY <1>1, <1>5, EntryOpen, Zenon DEF Seen
<1>9. Obj(file, de') \in Fds!Objects
  BY ObjectIn, Zenon
<1>10. Own!Open(fd, Obj(file, de'))
  BY <1>6, <1>7, <1>8, Zenon DEF Own!Open
<1> QED BY <1>4, <1>9, <1>10, Zenon

LEMMA NewFileIn ==
  ASSUME NEW kind \in {"dev", "fat", "sock"}, NEW private \in Nat \cup {Null}
  PROVE  /\ Fds!NewFile(kind, private) \in FileRec
         /\ Fds!NewFile(kind, private).kind = kind
         /\ Fds!NewFile(kind, private).private = private
         /\ Fds!NewFile(kind, private).pos = 0
<1>1. 0 \in Fds!Pos
  BY VfsAssumption DEF Fds!Pos
<1> QED BY <1>1 DEF Fds!NewFile, FileRec

LEMMA OpenDevStep ==
  ASSUME FdInv, Fds!vfs_open_dev
  PROVE  FdInv' /\ \E fd \in Fds!Fd, o \in Fds!Objects : Own!Open(fd, o)
<1> DEFINE file == Fds!NewFile("dev", Null)
<1>1. file \in FileRec /\ file.kind = "dev" /\ file.pos = 0
  BY NewFileIn, Zenon
<1>2. /\ Fds!vfs_fd_alloc(file) /\ handles' = handles /\ de' = de /\ socks' = socks
      /\ de' \in [Fds!Handle -> Files \cup {Null}]
  BY Zenon DEF Fds!vfs_open_dev, FdInv
<1>3. file.kind # "fat" /\ file.kind # "sock"
  BY <1>1
<1> HIDE DEF file
<1> QED BY <1>1, <1>2, <1>3, Opened, Zenon

\* A step after which every descriptor shows what it did.
LEMMA EntriesSame ==
  ASSUME FdInv, FdInv', ffds' = ffds, fs' = fs,
         \A x \in Fds!Fd : Uses(ffds, fs, x, "fat") => de'[fs[x].private] = de[fs[x].private]
  PROVE  Fds!Entries' = Fds!Entries
<1>1. Seen /\ Seen'
  BY EntriesSeen, PTL
<1>2. ASSUME NEW x \in Fds!Fd PROVE Fds!Entries'[x] = Fds!Entries[x]
  <2>1. CASE ffds[x] = Null
    BY <1>1, <2>1, Zenon DEF Seen
  <2>2. CASE ffds[x] # Null
    <3>1. Obj(fs[x], de') = Obj(fs[x], de)
      BY <2>2, Zenon DEF Obj, Uses
    <3>2. Fds!Entries[x] = [obj |-> Obj(fs[x], de), pos |-> fs[x].pos]
      BY <1>1, <2>2, Zenon DEF Seen
    <3>3. Fds!Entries'[x] = [obj |-> Obj(fs[x], de'), pos |-> fs[x].pos]
      BY <1>1, <2>2, Zenon DEF Seen
    <3> QED BY <3>1, <3>2, <3>3, Zenon
  <2> QED BY <2>1, <2>2, Zenon
<1> QED BY <1>1, <1>2, Zenon DEF Seen

LEMMA OpenFatStep ==
  ASSUME FdInv, NEW f \in Files, Fds!vfs_open_fat(f)
  PROVE  /\ FdInv'
         /\ \/ \E fd \in Fds!Fd, o \in Fds!Objects : Own!Open(fd, o)
            \/ Fds!Entries' = Fds!Entries
<1> DEFINE h == Fds!Lowest(Fds!FreeHandles)
           file == Fds!NewFile("fat", h)
<1>1. /\ Fds!FreeHandles # {} /\ de' = [de EXCEPT ![h] = f] /\ socks' = socks
      /\ \/ Fds!vfs_fd_alloc(file) /\ handles' = handles \cup {h}
         \/ handles' = handles /\ ffds' = ffds /\ fs' = fs
  BY Zenon DEF Fds!vfs_open_fat, Fds!ReleaseUnopened
<1>2. Fds!FreeHandles \subseteq Nat
  BY InNat, Zenon DEF Fds!FreeHandles
<1>3. h \in Fds!Handle \ handles /\ h \in Nat
  BY <1>1, <1>2, LowestIn, Zenon DEF Fds!FreeHandles
<1>4. file \in FileRec /\ file.kind = "fat" /\ file.private = h /\ file.pos = 0
  BY <1>3, NewFileIn, Zenon
<1>5. file.kind # "sock"
  BY <1>4
<1> HIDE DEF file, h
<1>6. /\ de' \in [Fds!Handle -> Files \cup {Null}] /\ de'[h] = f
      /\ \A g \in handles : de'[g] = de[g]
  BY <1>1, <1>3, Zenon DEF FdInv
<1>7. CASE Fds!vfs_fd_alloc(file) /\ handles' = handles \cup {h}
  BY <1>1, <1>3, <1>4, <1>5, <1>6, <1>7, Opened, Zenon
<1>8. CASE handles' = handles /\ ffds' = ffds /\ fs' = fs
  <2>1. \A x \in Fds!Fd : Uses(ffds, fs, x, "fat") => de'[fs[x].private] = de[fs[x].private]
    BY <1>6, Zenon DEF FdInv, Holds
  <2>2. FdInv'
    BY <1>1, <1>6, <1>8, <2>1, Zenon DEF FdInv
  <2> QED BY <1>8, <2>1, <2>2, EntriesSame, Zenon
<1> QED BY <1>1, <1>7, <1>8, Zenon

LEMMA SocketStep ==
  ASSUME FdInv, Fds!sys_socket
  PROVE  /\ FdInv'
         /\ \/ \E fd \in Fds!Fd, o \in Fds!Objects : Own!Open(fd, o)
            \/ Fds!Entries' = Fds!Entries
<1> DEFINE s == Fds!Lowest(Fds!Sock \ socks)
           file == Fds!NewFile("sock", s)
<1>1. /\ Fds!Sock \ socks # {}
      /\ \/ Fds!vfs_fd_alloc(file) /\ socks' = socks \cup {s}
         \/ socks' = (socks \cup {s}) \ {s} /\ ffds' = ffds /\ fs' = fs
      /\ handles' = handles /\ de' = de /\ de' \in [Fds!Handle -> Files \cup {Null}]
  BY Zenon DEF Fds!sys_socket, Fds!ReleaseUninstalled, FdInv
<1>2. Fds!Sock \ socks \subseteq Nat
  BY InNat, Zenon
<1>3. s \in Fds!Sock \ socks /\ s \in Nat
  BY <1>1, <1>2, LowestIn, Zenon
<1>4. file \in FileRec /\ file.kind = "sock" /\ file.private = s /\ file.pos = 0
  BY <1>3, NewFileIn, Zenon
<1>5. file.kind # "fat"
  BY <1>4
<1> HIDE DEF file, s
<1>6. CASE Fds!vfs_fd_alloc(file) /\ socks' = socks \cup {s}
  BY <1>1, <1>3, <1>4, <1>5, <1>6, Opened, Zenon
<1>7. CASE socks' = (socks \cup {s}) \ {s} /\ ffds' = ffds /\ fs' = fs
  <2>1. (socks \cup {s}) \ {s} = socks
    BY <1>3
  <2>2. socks' = socks
    BY <1>7, <2>1
  <2>3. FdInv'
    BY <1>1, <1>7, <2>2, Zenon DEF FdInv
  <2> QED BY <1>1, <1>7, <2>3, EntriesSame, Zenon
<1> QED BY <1>1, <1>6, <1>7, Zenon

-----------------------------------------------------------------------------
(* Closing.                                                                *)

LEMMA OpenKinds ==
  ASSUME FdInv, NEW fd \in Fds!Fd, NEW kinds
  PROVE  /\ Fds!IsOpen(fd, kinds) <=> ffds[fd] # Null /\ fs[fd].kind \in kinds
         /\ ffds[fd] # Null => fs[ffds[fd]] = fs[fd]
  BY Zenon DEF FdInv, Fds!IsOpen

\* An open descriptor becomes closed, and its resource free.
LEMMA Closed ==
  ASSUME FdInv, NEW fd \in Fds!Fd, ffds[fd] # Null, de' = de,
         ffds' = [ffds EXCEPT ![fd] = Null], fs' = Fds!Kept(ffds'),
         handles' = IF Uses(ffds, fs, fd, "fat") THEN handles \ {fs[fd].private} ELSE handles,
         socks' = IF Uses(ffds, fs, fd, "sock") THEN socks \ {fs[fd].private} ELSE socks
  PROVE  FdInv' /\ Own!Close(fd)
<1>1. /\ ffds \in [Fds!Fd -> Fds!Fd \cup {Null}] /\ fs \in [Fds!Fd -> FileRec \cup {Null}]
      /\ Holds(ffds, fs, "fat", handles) /\ Holds(ffds, fs, "sock", socks)
      /\ \A x \in Fds!Fd : ffds[x] # Null => ffds[x] = x /\ fs[x] \in FileRec
  BY Zenon DEF FdInv
<1>2. ffds'[fd] = Null /\ \A x \in Fds!Fd \ {fd} : ffds'[x] = ffds[x]
  BY <1>1, Zenon
<1>3. /\ fs' \in [Fds!Fd -> FileRec \cup {Null}]
      /\ \A x \in Fds!Fd \ {fd} : ffds[x] # Null => fs'[x] = fs[x]
  BY <1>1, <1>2, Zenon DEF Fds!Kept
<1>4. FdInv'
  <2>1. ffds' \in [Fds!Fd -> Fds!Fd \cup {Null}]
    BY <1>1, Zenon
  <2>2. handles' \subseteq Fds!Handle /\ socks' \subseteq Fds!Sock /\ de' \in [Fds!Handle -> Files \cup {Null}]
    BY Zenon DEF FdInv
  <2>3. \A x \in Fds!Fd : ffds'[x] # Null => ffds'[x] = x /\ fs'[x] \in FileRec
    BY <1>1, <1>2, <1>3, Zenon
  <2>4. \A x \in Fds!Fd : Uses(ffds', fs', x, "fat") => de'[fs'[x].private] \in Files
    <3>1. \A x \in Fds!Fd : Uses(ffds, fs, x, "fat") => de[fs[x].private] \in Files
      BY Zenon DEF FdInv
    <3>2. \A x \in Fds!Fd : Uses(ffds', fs', x, "fat") => Uses(ffds, fs, x, "fat") /\ fs'[x] = fs[x]
      BY <1>2, <1>3, Zenon DEF Uses
    <3> QED BY <3>1, <3>2, Zenon
  <2>5. Holds(ffds', fs', "fat", handles')
    BY <1>1, <1>3, HoldsClosed, Zenon
  <2>6. Holds(ffds', fs', "sock", socks')
    BY <1>1, <1>3, HoldsClosed, Zenon
  <2> QED BY <1>3, <2>1, <2>2, <2>3, <2>4, <2>5, <2>6, Zenon DEF FdInv
<1>5. Fds!Entries'[fd] = Null
  <2>1. Seen'
    BY <1>4, EntriesSeen, PTL
  <2> QED BY <1>2, <2>1, Zenon DEF Seen
<1>6. Fds!Entries' = [Fds!Entries EXCEPT ![fd] = Fds!Entries'[fd]]
  BY <1>2, <1>3, <1>4, EntryChanged, Zenon
<1>7. Fds!Entries[fd] # Null
  BY EntryOpen, Zenon
<1> QED BY <1>4, <1>5, <1>6, <1>7, Zenon DEF Own!Close

LEMMA CloseStep ==
  ASSUME FdInv, NEW fd \in Fds!Fd, Fds!vfs_close(fd) \/ Fds!sys_close_socket(fd)
  PROVE  FdInv' /\ Own!Close(fd)
<1>1. CASE Fds!vfs_close(fd)
  <2>1. /\ ffds[fd] # Null /\ fs[fd].kind \in {"dev", "fat"} /\ handles' = Fds!CloseHook(fd)
        /\ ffds' = [ffds EXCEPT ![fd] = Null] /\ fs' = Fds!Kept(ffds') /\ de' = de /\ socks' = socks
    BY <1>1, OpenKinds, Zenon DEF Fds!vfs_close
  <2>2. Fds!CloseHook(fd) = IF Uses(ffds, fs, fd, "fat") THEN handles \ {fs[fd].private} ELSE handles
    <3>1. (Fds!IsOpen(fd, {"fat"}) <=> Uses(ffds, fs, fd, "fat")) /\ fs[ffds[fd]] = fs[fd]
      BY <2>1, OpenKinds DEF Uses
    <3> QED BY <3>1, Zenon DEF Fds!CloseHook
  <2>3. ~Uses(ffds, fs, fd, "sock")
    BY <2>1 DEF Uses
  <2> QED BY <2>1, <2>2, <2>3, Closed, Zenon
<1>2. CASE Fds!sys_close_socket(fd)
  <2>1. /\ ffds[fd] # Null /\ fs[fd].kind = "sock" /\ socks' = socks \ {fs[fd].private}
        /\ ffds' = [ffds EXCEPT ![fd] = Null] /\ fs' = Fds!Kept(ffds') /\ de' = de /\ handles' = handles
    <3>1. ffds[fd] # Null /\ fs[fd].kind = "sock" /\ fs[ffds[fd]] = fs[fd]
      BY <1>2, OpenKinds DEF Fds!sys_close_socket
    <3> QED BY <1>2, <3>1, Zenon DEF Fds!sys_close_socket
  <2>2. Uses(ffds, fs, fd, "sock") /\ ~Uses(ffds, fs, fd, "fat")
    BY <2>1 DEF Uses
  <2> QED BY <2>1, <2>2, Closed, Zenon
<1> QED BY <1>1, <1>2, Zenon

-----------------------------------------------------------------------------
(* Positions and flags.                                                    *)

\* The file of an open descriptor changes, and stays the same file.
LEMMA Changed ==
  ASSUME FdInv, NEW fd \in Fds!Fd, ffds[fd] # Null, NEW file \in FileRec,
         file.kind = fs[fd].kind, file.private = fs[fd].private,
         fs' = [fs EXCEPT ![fd] = file],
         ffds' = ffds, handles' = handles, de' = de, socks' = socks
  PROVE  FdInv' /\ Own!Move(fd, file.pos)
<1>1. /\ fs \in [Fds!Fd -> FileRec \cup {Null}]
      /\ Holds(ffds, fs, "fat", handles) /\ Holds(ffds, fs, "sock", socks)
  BY Zenon DEF FdInv
<1>2. fs'[fd] = file /\ \A x \in Fds!Fd \ {fd} : fs'[x] = fs[x]
  BY <1>1, Zenon
<1>3. \A x \in Fds!Fd : ffds[x] # Null => fs'[x].kind = fs[x].kind /\ fs'[x].private = fs[x].private
  BY <1>2, Zenon
<1>4. FdInv'
  <2>1. fs' \in [Fds!Fd -> FileRec \cup {Null}]
    BY <1>1, Zenon
  <2>2. \A x \in Fds!Fd : ffds'[x] # Null => ffds'[x] = x /\ fs'[x] \in FileRec
    <3>1. \A x \in Fds!Fd : ffds[x] # Null => ffds[x] = x /\ fs[x] \in FileRec
      BY Zenon DEF FdInv
    <3>2. \A x \in Fds!Fd : fs[x] \in FileRec => fs'[x] \in FileRec
      BY <1>2, Zenon
    <3> QED BY <3>1, <3>2, Zenon
  <2>3. \A x \in Fds!Fd : Uses(ffds', fs', x, "fat") => de'[fs'[x].private] \in Files
    <3>1. \A x \in Fds!Fd : Uses(ffds, fs, x, "fat") => de[fs[x].private] \in Files
      BY Zenon DEF FdInv
    <3>2. \A x \in Fds!Fd : Uses(ffds', fs', x, "fat") =>
            Uses(ffds, fs, x, "fat") /\ fs'[x].private = fs[x].private
      BY <1>3, Zenon DEF Uses
    <3> QED BY <3>1, <3>2, Zenon
  <2>4. Holds(ffds, fs', "fat", handles) /\ Holds(ffds, fs', "sock", socks)
    BY <1>1, <1>3, HoldsKept, Zenon
  <2> QED BY <2>1, <2>2, <2>3, <2>4, Zenon DEF FdInv
<1>5. Seen /\ Seen'
  BY <1>4, EntriesSeen, PTL
<1>6. Fds!Entries[fd] = [obj |-> Obj(fs[fd], de), pos |-> fs[fd].pos]
  BY <1>5, Zenon DEF Seen
<1>7. Fds!Entries'[fd] = [obj |-> Obj(fs[fd], de), pos |-> file.pos]
  <2>1. Fds!Entries'[fd] = [obj |-> Obj(fs'[fd], de'), pos |-> fs'[fd].pos]
    BY <1>5, Zenon DEF Seen
  <2>2. Obj(file, de) = Obj(fs[fd], de)
    BY Zenon DEF Obj
  <2> QED BY <1>2, <2>1, <2>2, Zenon
<1>8. Fds!Entries' = [Fds!Entries EXCEPT ![fd] = Fds!Entries'[fd]]
  BY <1>2, <1>4, EntryChanged, Zenon
<1>9. Fds!Entries' = [Fds!Entries EXCEPT ![fd].pos = file.pos]
  BY <1>6, <1>7, <1>8
<1>10. Fds!Entries[fd] # Null
  BY EntryOpen, Zenon
<1> QED BY <1>4, <1>9, <1>10, Zenon DEF Own!Move

LEMMA ReadPosition ==
  ASSUME NEW size \in Fds!Pos, NEW pos \in Fds!Pos, NEW n \in Int, n >= 0
  PROVE  (IF pos >= size THEN pos ELSE pos + Fds!MinOf(n, size - pos)) \in Fds!Pos
  BY VfsAssumption DEF Fds!Pos, Fds!MinOf

LEMMA SeekPosition ==
  ASSUME NEW a \in Int
  PROVE  a % 2 ^ PosBits \in Fds!Pos
<1>1. ASSUME NEW m \in Nat \ {0} PROVE a % m \in 0 .. m - 1
  BY <1>1
<1> QED BY <1>1, VfsAssumption, Zenon DEF Fds!Pos

\* A change of one field of the file behind fd.
LEMMA FieldChanged ==
  ASSUME FdInv, NEW fd \in Fds!Fd, ffds[fd] # Null
  PROVE  /\ fs[fd] \in FileRec
         /\ \A p \in Fds!Pos :
              /\ [fs[fd] EXCEPT !.pos = p] \in FileRec
              /\ [fs[fd] EXCEPT !.pos = p].kind = fs[fd].kind
              /\ [fs[fd] EXCEPT !.pos = p].private = fs[fd].private
              /\ [fs[fd] EXCEPT !.pos = p].pos = p
              /\ [fs EXCEPT ![ffds[fd]].pos = p] = [fs EXCEPT ![fd] = [fs[fd] EXCEPT !.pos = p]]
         /\ \A nb \in {"no", "yes"} :
              /\ [fs[fd] EXCEPT !.nonblock = nb] \in FileRec
              /\ [fs[fd] EXCEPT !.nonblock = nb].kind = fs[fd].kind
              /\ [fs[fd] EXCEPT !.nonblock = nb].private = fs[fd].private
              /\ [fs[fd] EXCEPT !.nonblock = nb].pos = fs[fd].pos
              /\ [fs EXCEPT ![ffds[fd]].nonblock = nb] = [fs EXCEPT ![fd] = [fs[fd] EXCEPT !.nonblock = nb]]
<1>1. ffds[fd] = fd /\ fs[fd] \in FileRec
  BY Zenon DEF FdInv
<1>2. ASSUME NEW p \in Fds!Pos
      PROVE  /\ [fs[fd] EXCEPT !.pos = p] \in FileRec
             /\ [fs[fd] EXCEPT !.pos = p].kind = fs[fd].kind
             /\ [fs[fd] EXCEPT !.pos = p].private = fs[fd].private
             /\ [fs[fd] EXCEPT !.pos = p].pos = p
  BY <1>1 DEF FileRec
<1>3. ASSUME NEW nb \in {"no", "yes"}
      PROVE  /\ [fs[fd] EXCEPT !.nonblock = nb] \in FileRec
             /\ [fs[fd] EXCEPT !.nonblock = nb].kind = fs[fd].kind
             /\ [fs[fd] EXCEPT !.nonblock = nb].private = fs[fd].private
             /\ [fs[fd] EXCEPT !.nonblock = nb].pos = fs[fd].pos
  BY <1>1 DEF FileRec
<1> QED BY <1>1, <1>2, <1>3, Zenon

LEMMA ReadStep ==
  ASSUME FdInv, NEW fd \in Fds!Fd, NEW n \in Offsets, Fds!vfs_read(fd, n)
  PROVE  FdInv' /\ \E p \in Fds!Pos : Own!Move(fd, p)
<1>1. ffds[fd] # Null /\ fs[fd].kind = "fat" /\ fs[ffds[fd]] = fs[fd] /\ n >= 0
  BY OpenKinds DEF Fds!vfs_read
<1>2. fs[fd] \in FileRec /\ fs[fd].pos \in Fds!Pos /\ n \in Int
  BY <1>1, FieldChanged, VfsAssumption, Zenon DEF FileRec
<1>3. Size[de[fs[fd].private]] \in Fds!Pos
  BY <1>1, VfsAssumption, Zenon DEF FdInv, Uses, Fds!Pos
<1> DEFINE p == Fds!FatRead(fs[fd], n)
<1>4. p \in Fds!Pos
  BY <1>1, <1>2, <1>3, ReadPosition, Zenon DEF Fds!FatRead
<1>5. /\ fs' = [fs EXCEPT ![ffds[fd]].pos = p]
      /\ ffds' = ffds /\ handles' = handles /\ de' = de /\ socks' = socks
  BY <1>1, Zenon DEF Fds!vfs_read
<1> HIDE DEF p
<1> DEFINE file == [fs[fd] EXCEPT !.pos = p]
<1>6. /\ file \in FileRec /\ file.kind = fs[fd].kind /\ file.private = fs[fd].private
      /\ file.pos = p /\ fs' = [fs EXCEPT ![fd] = file]
  BY FieldChanged, <1>1, <1>4, <1>5, Zenon
<1> HIDE DEF file
<1>7. FdInv' /\ Own!Move(fd, file.pos)
  BY <1>1, <1>5, <1>6, Changed, Zenon
<1> QED BY <1>4, <1>6, <1>7, Zenon

LEMMA LseekStep ==
  ASSUME FdInv, NEW fd \in Fds!Fd, NEW n \in Offsets, NEW w \in Whences, Fds!vfs_lseek(fd, n, w)
  PROVE  FdInv' /\ \E p \in Fds!Pos : Own!Move(fd, p)
<1>1. ffds[fd] # Null /\ fs[fd].kind = "fat" /\ fs[ffds[fd]] = fs[fd]
  BY OpenKinds DEF Fds!vfs_lseek
<1>2. fs[fd].pos \in Fds!Pos /\ n \in Int /\ w \in {0, 1, 2}
  BY <1>1, FieldChanged, VfsAssumption, Zenon DEF FileRec
<1> DEFINE a == CASE w = 0 -> n [] w = 1 -> fs[fd].pos + n [] w = 2 -> 0 + n
           p == Fds!SeekTo(fs[fd], n, w)
<1>3. a \in Int
  BY <1>2, VfsAssumption DEF Fds!Pos
<1>4. p \in Fds!Pos
  <2> HIDE DEF a
  <2>1. a % 2 ^ PosBits \in Fds!Pos
    BY <1>3, SeekPosition, Zenon
  <2> QED BY <2>1, Zenon DEF Fds!SeekTo, a
<1>5. /\ fs' = [fs EXCEPT ![ffds[fd]].pos = p]
      /\ ffds' = ffds /\ handles' = handles /\ de' = de /\ socks' = socks
  BY <1>1, Zenon DEF Fds!vfs_lseek
<1> HIDE DEF p
<1> DEFINE file == [fs[fd] EXCEPT !.pos = p]
<1>6. /\ file \in FileRec /\ file.kind = fs[fd].kind /\ file.private = fs[fd].private
      /\ file.pos = p /\ fs' = [fs EXCEPT ![fd] = file]
  BY FieldChanged, <1>1, <1>4, <1>5, Zenon
<1> HIDE DEF file
<1>7. FdInv' /\ Own!Move(fd, file.pos)
  BY <1>1, <1>5, <1>6, Changed, Zenon
<1> QED BY <1>4, <1>6, <1>7, Zenon

LEMMA FcntlStep ==
  ASSUME FdInv, NEW fd \in Fds!Fd, NEW nb \in {"no", "yes"}, Fds!vfs_fcntl(fd, nb)
  PROVE  FdInv' /\ \E p \in Fds!Pos : Own!Move(fd, p)
<1>1. /\ ffds[fd] # Null /\ fs' = [fs EXCEPT ![ffds[fd]].nonblock = nb]
      /\ ffds' = ffds /\ handles' = handles /\ de' = de /\ socks' = socks
  BY Zenon DEF Fds!vfs_fcntl
<1>2. fs[fd].pos \in Fds!Pos
  BY <1>1, FieldChanged, Zenon DEF FileRec
<1> DEFINE file == [fs[fd] EXCEPT !.nonblock = nb]
<1>3. /\ file \in FileRec /\ file.kind = fs[fd].kind /\ file.private = fs[fd].private
      /\ file.pos = fs[fd].pos /\ fs' = [fs EXCEPT ![fd] = file]
  BY FieldChanged, <1>1, Zenon
<1> HIDE DEF file
<1>4. FdInv' /\ Own!Move(fd, file.pos)
  BY <1>1, <1>3, Changed, Zenon
<1> QED BY <1>2, <1>3, <1>4, Zenon

-----------------------------------------------------------------------------
(* The results.                                                            *)

LEMMA FdInit == Fds!Init => FdInv /\ Own!Init
<1> SUFFICES ASSUME Fds!Init PROVE FdInv /\ Own!Init
  BY Zenon
<1>1. Fds!NewFile("dev", Null) \in FileRec /\ Fds!NewFile("dev", Null).kind = "dev"
      /\ Fds!NewFile("dev", Null).pos = 0
  BY NewFileIn, Zenon
<1>2. /\ ffds = [fd \in Fds!Fd |-> IF fd < NumStd THEN fd ELSE Null]
      /\ fs = [fd \in Fds!Fd |-> IF fd < NumStd THEN Fds!NewFile("dev", Null) ELSE Null]
      /\ handles = {} /\ de = [h \in Fds!Handle |-> Null] /\ socks = {}
  BY Zenon DEF Fds!Init
<1> HIDE DEF Fds!NewFile
<1>3. \A fd \in Fds!Fd : ffds[fd] # Null => ffds[fd] = fd /\ fs[fd] = Fds!NewFile("dev", Null)
  BY <1>2, Zenon
<1>4. \A fd \in Fds!Fd : ~Uses(ffds, fs, fd, "fat") /\ ~Uses(ffds, fs, fd, "sock")
  BY <1>1, <1>3 DEF Uses
<1>5. ffds \in [Fds!Fd -> Fds!Fd \cup {Null}] /\ fs \in [Fds!Fd -> FileRec \cup {Null}]
  BY <1>1, <1>2, Zenon
<1>6. FdInv
  <2>1. Holds(ffds, fs, "fat", handles) /\ Holds(ffds, fs, "sock", socks)
    BY <1>2, <1>4, Zenon DEF Holds
  <2>2. handles \subseteq Fds!Handle /\ de \in [Fds!Handle -> Files \cup {Null}] /\ socks \subseteq Fds!Sock
    BY <1>2, Zenon
  <2> QED BY <1>1, <1>3, <1>4, <1>5, <2>1, <2>2, Zenon DEF FdInv
<1>7. Seen
  BY <1>6, EntriesSeen, Zenon
<1>8. ASSUME NEW fd \in Fds!Fd
      PROVE  Fds!Entries[fd] = IF fd < NumStd THEN [obj |-> <<"dev">>, pos |-> 0] ELSE Null
  <2>1. CASE fd < NumStd
    <3>1. ffds[fd] # Null /\ fs[fd] = Fds!NewFile("dev", Null)
      BY <1>2, <2>1, NullIsNone, Zenon
    <3>2. Fds!Entries[fd] = [obj |-> Obj(fs[fd], de), pos |-> fs[fd].pos]
      BY <1>7, <3>1, Zenon DEF Seen
    <3> QED BY <1>1, <2>1, <3>1, <3>2, Zenon DEF Obj
  <2>2. CASE ~(fd < NumStd)
    BY <1>2, <1>7, <2>2, Zenon DEF Seen
  <2> QED BY <2>1, <2>2, Zenon
<1>9. Fds!Entries = Fds!Start
  BY <1>7, <1>8, Zenon DEF Seen, Fds!Start
<1> QED BY <1>6, <1>9, Zenon DEF Own!Init

LEMMA FdStep ==
  FdInv /\ [Fds!Next]_Fds!vars => FdInv' /\ [Own!Next]_Fds!Entries
<1> SUFFICES ASSUME FdInv, [Fds!Next]_Fds!vars PROVE FdInv' /\ [Own!Next]_Fds!Entries
  BY Zenon
<1>1. CASE UNCHANGED Fds!vars
  <2>1. ffds' = ffds /\ fs' = fs /\ handles' = handles /\ de' = de /\ socks' = socks
    BY <1>1, Zenon DEF Fds!vars
  <2>2. FdInv'
    BY <2>1, Zenon DEF FdInv
  <2> QED BY <2>1, <2>2, EntriesSame, Zenon
<1>2. CASE Fds!vfs_open_dev \/ Fds!sys_socket
  BY <1>2, OpenDevStep, SocketStep, Zenon DEF Own!Next
<1>3. ASSUME NEW f \in Files, Fds!vfs_open_fat(f) PROVE FdInv' /\ [Own!Next]_Fds!Entries
  BY <1>3, OpenFatStep, Zenon DEF Own!Next
<1>4. ASSUME NEW fd \in Fds!Fd, Fds!vfs_close(fd) \/ Fds!sys_close_socket(fd)
      PROVE  FdInv' /\ [Own!Next]_Fds!Entries
  BY <1>4, CloseStep, Zenon DEF Own!Next
<1>5. ASSUME NEW fd \in Fds!Fd, NEW n \in Offsets,
             Fds!vfs_read(fd, n) \/ \E w \in Whences : Fds!vfs_lseek(fd, n, w)
      PROVE  FdInv' /\ [Own!Next]_Fds!Entries
  BY <1>5, ReadStep, LseekStep, Zenon DEF Own!Next
<1>6. ASSUME NEW fd \in Fds!Fd, NEW nb \in {"no", "yes"}, Fds!vfs_fcntl(fd, nb)
      PROVE  FdInv' /\ [Own!Next]_Fds!Entries
  BY <1>6, FcntlStep, Zenon DEF Own!Next
<1>7. ~ \E d \in {} : Fds!vfs_dup2(d[1], d[2])
  BY Zenon
<1> QED BY <1>1, <1>2, <1>3, <1>4, <1>5, <1>6, <1>7, Zenon DEF Fds!Next

\* Programs that do not share a file_t see a table in which every descriptor
\* stands for its own object and position: vfs_open(), vfs_close(), vfs_read(),
\* vfs_lseek() and the socket calls touch the descriptor they are given and no
\* other, for every number of descriptors, handles, sockets and files.
THEOREM DescriptorsOwn == Fds!Spec => OwnFiles
<1>1. Fds!Init => FdInv /\ Own!Init
  BY FdInit, Zenon
<1>2. FdInv /\ [Fds!Next]_Fds!vars => FdInv' /\ [Own!Next]_Fds!Entries
  BY FdStep, Zenon
<1> QED BY <1>1, <1>2, PTL DEF Fds!Spec, OwnFiles, Own!Spec

-----------------------------------------------------------------------------
(* Handles and sockets without dup2().                                     *)

LEMMA HeldOnce ==
  ASSUME FdInv, NEW kind \in {"fat", "sock"}, NEW used, Holds(ffds, fs, kind, used)
  PROVE  Fds!HeldBy(kind, used)
<1> DEFINE S == {fd \in Fds!Fd : Uses(ffds, fs, fd, kind)}
<1>1. Fds!OpenFiles(kind) = S
  <2>1. \A fd \in Fds!Fd : Fds!IsOpen(fd, {kind}) <=> Uses(ffds, fs, fd, kind)
    BY OpenKinds DEF Uses
  <2>2. \A fd \in Fds!Fd : Uses(ffds, fs, fd, kind) => ffds[fd] = fd
    BY Zenon DEF FdInv, Uses
  <2> QED BY <2>1, <2>2 DEF Fds!OpenFiles
<1>2. used = {fs[fd].private : fd \in S}
  BY DEF Holds
<1>3. \A i, j \in S : fs[i].private = fs[j].private => i = j
  BY Zenon DEF Holds
<1> QED BY <1>1, <1>2, <1>3, Zenon DEF Fds!PrivateOf, Fds!HeldBy

LEMMA FdsHeld == FdInv => Fds!ResourcesHeld
<1> SUFFICES ASSUME FdInv PROVE Fds!ResourcesHeld
  BY Zenon
<1>1. Fds!HeldBy("fat", handles)
  BY HeldOnce, Zenon DEF FdInv
<1>2. Fds!HeldBy("sock", socks)
  BY HeldOnce, Zenon DEF FdInv
<1> QED BY <1>1, <1>2, Zenon DEF Fds!ResourcesHeld

-----------------------------------------------------------------------------
(* Programs that also call dup2().                                         *)

DupRec ==
  [kind : {"dev", "fat", "sock"}, private : Nat \cup {Null}, pos : Dup!Pos, nonblock : {"no", "yes"}]

\* The inductive invariant: a handle in use is that of an element of fs[] whose
\* own descriptor still points to it.  An element that only other descriptors
\* point to has lost its handle, because vfs_close() and vfs_dup2() of its own
\* descriptor ran the close hook.
DupInv ==
  /\ dfds \in [Dup!Fd -> Dup!Fd \cup {Null}] /\ dfs \in [Dup!Fd -> DupRec \cup {Null}]
  /\ dhandles \subseteq Dup!Handle /\ dde \in [Dup!Handle -> DupFiles \cup {Null}]
  /\ \A fd \in Dup!Fd : dfds[fd] # Null =>
       /\ dfs[dfds[fd]] \in DupRec
       /\ dfs[dfds[fd]].kind = "fat" =>
            dfs[dfds[fd]].private \in Dup!Handle /\ dde[dfs[dfds[fd]].private] \in DupFiles
  /\ \A h \in dhandles : \E i \in Dup!Fd : dfds[i] = i /\ dfs[i].kind = "fat" /\ dfs[i].private = h

LEMMA DupNumbers ==
  /\ Null \notin Dup!Fd
  /\ Dup!Fd \subseteq Nat /\ Dup!Handle \subseteq Nat /\ Dup!Sock \subseteq Nat
  BY VfsAssumption DEF Dup!Fd, Dup!Handle, Dup!Sock

LEMMA DupNewFile ==
  ASSUME NEW kind \in {"dev", "fat", "sock"}, NEW private \in Nat \cup {Null}
  PROVE  /\ Dup!NewFile(kind, private) \in DupRec
         /\ Dup!NewFile(kind, private).kind = kind
         /\ Dup!NewFile(kind, private).private = private
<1>1. 0 \in Dup!Pos
  BY VfsAssumption DEF Dup!Pos
<1> QED BY <1>1 DEF Dup!NewFile, DupRec

LEMMA DupInit == Dup!Init => DupInv
<1> SUFFICES ASSUME Dup!Init PROVE DupInv
  BY Zenon
<1>1. Dup!NewFile("dev", Null) \in DupRec /\ Dup!NewFile("dev", Null).kind = "dev"
  BY DupNewFile, Zenon
<1>2. /\ dfds = [fd \in Dup!Fd |-> IF fd < NumStd THEN fd ELSE Null]
      /\ dfs = [fd \in Dup!Fd |-> IF fd < NumStd THEN Dup!NewFile("dev", Null) ELSE Null]
      /\ dhandles = {} /\ dde = [h \in Dup!Handle |-> Null]
  BY Zenon DEF Dup!Init
<1>3. \A fd \in Dup!Fd : dfds[fd] # Null => dfs[dfds[fd]] = Dup!NewFile("dev", Null)
  BY <1>2, Zenon
<1>4. \A fd \in Dup!Fd : dfds[fd] # Null => dfs[dfds[fd]] \in DupRec /\ dfs[dfds[fd]].kind # "fat"
  BY <1>1, <1>3
<1>5. /\ dfds \in [Dup!Fd -> Dup!Fd \cup {Null}] /\ dfs \in [Dup!Fd -> DupRec \cup {Null}]
      /\ dhandles \subseteq Dup!Handle /\ dde \in [Dup!Handle -> DupFiles \cup {Null}]
  BY <1>1, <1>2, Zenon
<1> QED BY <1>2, <1>4, <1>5, Zenon DEF DupInv

\* A descriptor that is opened was closed: no handle in use is that of its
\* element of fs[].
LEMMA DupOpened ==
  ASSUME DupInv, NEW file \in DupRec, Dup!vfs_fd_alloc(file),
         dhandles' = IF file.kind = "fat" THEN dhandles \cup {file.private} ELSE dhandles,
         dde' \in [Dup!Handle -> DupFiles \cup {Null}],
         \A h \in Dup!Handle : dde[h] \in DupFiles => dde'[h] \in DupFiles,
         file.kind = "fat" => file.private \in Dup!Handle /\ dde'[file.private] \in DupFiles
  PROVE  DupInv'
<1> DEFINE fd == Dup!Lowest(Dup!FreeFds)
<1>1. Dup!FreeFds # {} /\ dfds' = [dfds EXCEPT ![fd] = fd] /\ dfs' = [dfs EXCEPT ![fd] = file]
  BY Zenon DEF Dup!vfs_fd_alloc
<1>2. Dup!FreeFds \subseteq Nat
  BY DupNumbers, Zenon DEF Dup!FreeFds
<1>3. fd \in Dup!Fd /\ dfds[fd] = Null
  BY <1>1, <1>2, DupLowestIn, Zenon DEF Dup!FreeFds
<1> HIDE DEF fd
<1>4. /\ dfds' \in [Dup!Fd -> Dup!Fd \cup {Null}] /\ dfs' \in [Dup!Fd -> DupRec \cup {Null}]
      /\ dfds'[fd] = fd /\ dfs'[fd] = file
      /\ \A x \in Dup!Fd \ {fd} : dfds'[x] = dfds[x] /\ dfs'[x] = dfs[x]
  BY <1>1, <1>3, Zenon DEF DupInv
<1>5. dhandles' \subseteq Dup!Handle
  BY Zenon DEF DupInv
<1>6. ASSUME NEW x \in Dup!Fd, dfds'[x] # Null
      PROVE  /\ dfs'[dfds'[x]] \in DupRec
             /\ dfs'[dfds'[x]].kind = "fat" =>
                  dfs'[dfds'[x]].private \in Dup!Handle /\ dde'[dfs'[dfds'[x]].private] \in DupFiles
  <2>1. CASE dfds'[x] = fd
    BY <1>4, <2>1, Zenon
  <2>2. CASE dfds'[x] # fd
    <3>1. x # fd /\ dfds'[x] = dfds[x] /\ dfds[x] \in Dup!Fd \ {fd}
      BY <1>4, <1>6, <2>2, Zenon
    <3>2. dfs'[dfds'[x]] = dfs[dfds[x]]
      BY <1>4, <3>1, Zenon
    <3>3. /\ dfs[dfds[x]] \in DupRec
          /\ dfs[dfds[x]].kind = "fat" =>
               dfs[dfds[x]].private \in Dup!Handle /\ dde[dfs[dfds[x]].private] \in DupFiles
      BY <1>6, <3>1, Zenon DEF DupInv
    <3> QED BY <3>2, <3>3, Zenon
  <2> QED BY <2>1, <2>2, Zenon
<1>7. ASSUME NEW h \in dhandles'
      PROVE  \E i \in Dup!Fd : dfds'[i] = i /\ dfs'[i].kind = "fat" /\ dfs'[i].private = h
  <2>1. CASE h \in dhandles
    <3>1. PICK i \in Dup!Fd : dfds[i] = i /\ dfs[i].kind = "fat" /\ dfs[i].private = h
      BY <2>1, Zenon DEF DupInv
    <3>2. i # fd
      BY <1>3, <3>1, DupNumbers, Zenon
    <3> QED BY <1>4, <3>1, <3>2, Zenon
  <2>2. CASE h \notin dhandles
    <3>1. file.kind = "fat" /\ h = file.private
      BY <1>7, <2>2, Zenon
    <3> QED BY <1>3, <1>4, <3>1, Zenon
  <2> QED BY <2>1, <2>2, Zenon
<1> QED BY <1>4, <1>5, <1>6, <1>7, Zenon DEF DupInv

\* Descriptor fd lets go of its file and points to q, nothing or the file of
\* another descriptor: the close hook freed the handle.
LEMMA DupReleased ==
  ASSUME DupInv, NEW fd \in Dup!Fd, NEW q,
         q = Null \/ \E old \in Dup!Fd : q = dfds[old] /\ q # Null,
         dfds' = [dfds EXCEPT ![fd] = q], dfs' = Dup!Kept(dfds'),
         dhandles' = Dup!CloseHook(fd), dde' = dde
  PROVE  DupInv'
<1>1. /\ dfds \in [Dup!Fd -> Dup!Fd \cup {Null}] /\ dfs \in [Dup!Fd -> DupRec \cup {Null}]
      /\ dhandles \subseteq Dup!Handle /\ dde \in [Dup!Handle -> DupFiles \cup {Null}]
  BY Zenon DEF DupInv
<1>2. dfds'[fd] = q /\ \A x \in Dup!Fd \ {fd} : dfds'[x] = dfds[x]
  BY <1>1, Zenon
<1>3. dfds' \in [Dup!Fd -> Dup!Fd \cup {Null}]
  BY <1>1, Zenon
<1>4. /\ dfs' \in [Dup!Fd -> DupRec \cup {Null}]
      /\ \A x \in Dup!Fd : dfds'[x] # Null => dfs'[dfds'[x]] = dfs[dfds'[x]]
  BY <1>1, <1>3, Zenon DEF Dup!Kept
<1>5. \A x \in Dup!Fd : dfds'[x] # Null => \E y \in Dup!Fd : dfds[y] = dfds'[x] /\ dfds[y] # Null
  BY <1>2, Zenon
<1>6. dhandles' \subseteq dhandles
  BY Zenon DEF Dup!CloseHook
<1>7. ASSUME NEW x \in Dup!Fd, dfds'[x] # Null
      PROVE  /\ dfs'[dfds'[x]] \in DupRec
             /\ dfs'[dfds'[x]].kind = "fat" =>
                  dfs'[dfds'[x]].private \in Dup!Handle /\ dde'[dfs'[dfds'[x]].private] \in DupFiles
  <2>1. PICK y \in Dup!Fd : dfds[y] = dfds'[x] /\ dfds[y] # Null
    BY <1>5, <1>7, Zenon
  <2>2. /\ dfs[dfds[y]] \in DupRec
        /\ dfs[dfds[y]].kind = "fat" =>
             dfs[dfds[y]].private \in Dup!Handle /\ dde[dfs[dfds[y]].private] \in DupFiles
    BY <2>1, Zenon DEF DupInv
  <2>3. dfs'[dfds'[x]] = dfs[dfds[y]]
    BY <1>4, <1>7, <2>1, Zenon
  <2> QED BY <2>2, <2>3, Zenon
<1>8. ASSUME NEW h \in dhandles'
      PROVE  \E i \in Dup!Fd : dfds'[i] = i /\ dfs'[i].kind = "fat" /\ dfs'[i].private = h
  <2>1. PICK i \in Dup!Fd : dfds[i] = i /\ dfs[i].kind = "fat" /\ dfs[i].private = h
    BY <1>6, <1>8, Zenon DEF DupInv
  <2>2. i # fd
    <3>1. SUFFICES ASSUME i = fd PROVE FALSE
      BY Zenon
    <3>2. dfds[fd] = fd /\ dfs[fd].kind \in {"fat"} /\ dfs[fd].private = h /\ fd # Null
      BY <2>1, <3>1, DupNumbers, Zenon
    <3>3. dhandles' = dhandles \ {h}
      BY <3>2, Zenon DEF Dup!CloseHook, Dup!IsOpen
    <3> QED BY <1>8, <3>3, Zenon
  <2>3. dfds'[i] = i /\ dfs'[i] = dfs[i]
    BY <1>2, <1>4, <2>1, <2>2, DupNumbers, ZenonT(60)
  <2> QED BY <2>1, <2>3, Zenon
<1>9. dhandles' \subseteq Dup!Handle
  BY <1>1, <1>6, Zenon
<1> QED BY <1>1, <1>3, <1>4, <1>7, <1>8, <1>9, Zenon DEF DupInv

\* The file_t behind fd changes, and stays the same file.
LEMMA DupChanged ==
  ASSUME DupInv, NEW i \in Dup!Fd, NEW file \in DupRec,
         file.kind = dfs[i].kind, file.private = dfs[i].private,
         dfs' = [dfs EXCEPT ![i] = file], dfds' = dfds, dhandles' = dhandles, dde' = dde
  PROVE  DupInv'
<1>1. dfs \in [Dup!Fd -> DupRec \cup {Null}] /\ dfds \in [Dup!Fd -> Dup!Fd \cup {Null}]
  BY Zenon DEF DupInv
<1>2. /\ dfs' \in [Dup!Fd -> DupRec \cup {Null}]
      /\ \A x \in Dup!Fd : dfs'[x].kind = dfs[x].kind /\ dfs'[x].private = dfs[x].private
      /\ \A x \in Dup!Fd : dfs[x] \in DupRec => dfs'[x] \in DupRec
  BY <1>1, Zenon
<1>3. ASSUME NEW x \in Dup!Fd, dfds[x] # Null
      PROVE  /\ dfs'[dfds[x]] \in DupRec
             /\ dfs'[dfds[x]].kind = "fat" =>
                  dfs'[dfds[x]].private \in Dup!Handle /\ dde[dfs'[dfds[x]].private] \in DupFiles
  <2>1. dfds[x] \in Dup!Fd
    BY <1>1, <1>3, Zenon
  <2>2. /\ dfs[dfds[x]] \in DupRec
        /\ dfs[dfds[x]].kind = "fat" =>
             dfs[dfds[x]].private \in Dup!Handle /\ dde[dfs[dfds[x]].private] \in DupFiles
    BY <1>3, Zenon DEF DupInv
  <2>3. /\ dfs'[dfds[x]].kind = dfs[dfds[x]].kind /\ dfs'[dfds[x]].private = dfs[dfds[x]].private
        /\ dfs'[dfds[x]] \in DupRec
    BY <1>2, <2>1, <2>2, Zenon
  <2> QED BY <2>2, <2>3, Zenon
<1>4. \A h \in dhandles : \E x \in Dup!Fd : dfds[x] = x /\ dfs'[x].kind = "fat" /\ dfs'[x].private = h
  <2>1. \A h \in dhandles : \E x \in Dup!Fd : dfds[x] = x /\ dfs[x].kind = "fat" /\ dfs[x].private = h
    BY Zenon DEF DupInv
  <2> QED BY <1>2, <2>1, Zenon
<1>5. /\ dfds' \in [Dup!Fd -> Dup!Fd \cup {Null}] /\ dhandles' \subseteq Dup!Handle
      /\ dde' \in [Dup!Handle -> DupFiles \cup {Null}]
  BY Zenon DEF DupInv
<1>6. \A x \in Dup!Fd : dfds'[x] # Null =>
        /\ dfs'[dfds'[x]] \in DupRec
        /\ dfs'[dfds'[x]].kind = "fat" =>
             dfs'[dfds'[x]].private \in Dup!Handle /\ dde'[dfs'[dfds'[x]].private] \in DupFiles
  BY <1>3
<1>7. \A h \in dhandles' : \E x \in Dup!Fd : dfds'[x] = x /\ dfs'[x].kind = "fat" /\ dfs'[x].private = h
  BY <1>4
<1> QED BY <1>2, <1>5, <1>6, <1>7, Zenon DEF DupInv

LEMMA DupOpens ==
  ASSUME DupInv, Dup!vfs_open_dev \/ Dup!sys_socket \/ \E f \in DupFiles : Dup!vfs_open_fat(f)
  PROVE  DupInv'
<1>1. CASE Dup!vfs_open_dev
  <2> DEFINE file == Dup!NewFile("dev", Null)
  <2>1. file \in DupRec /\ file.kind = "dev"
    BY DupNewFile, Zenon
  <2>2. file.kind # "fat"
    BY <2>1
  <2>3. Dup!vfs_fd_alloc(file) /\ dhandles' = dhandles /\ dde' = dde
    BY <1>1, Zenon DEF Dup!vfs_open_dev
  <2>4. dde \in [Dup!Handle -> DupFiles \cup {Null}]
    BY Zenon DEF DupInv
  <2> HIDE DEF file
  <2> QED BY <2>1, <2>2, <2>3, <2>4, DupOpened, Zenon
<1>2. CASE Dup!sys_socket
  <2> DEFINE s == Dup!Lowest(Dup!Sock \ dsocks)
             file == Dup!NewFile("sock", s)
  <2>1. /\ Dup!Sock \ dsocks # {} /\ dhandles' = dhandles /\ dde' = dde
        /\ Dup!vfs_fd_alloc(file) \/ (dfds' = dfds /\ dfs' = dfs)
        /\ dde \in [Dup!Handle -> DupFiles \cup {Null}]
    BY <1>2, Zenon DEF Dup!sys_socket, DupInv
  <2>2. Dup!Sock \ dsocks \subseteq Nat
    BY DupNumbers, Zenon
  <2>3. s \in Nat
    BY <2>1, <2>2, DupLowestIn, Zenon
  <2>4. file \in DupRec /\ file.kind = "sock"
    BY <2>3, DupNewFile, Zenon
  <2>5. file.kind # "fat"
    BY <2>4
  <2> HIDE DEF file, s
  <2>6. CASE Dup!vfs_fd_alloc(file)
    BY <2>1, <2>4, <2>5, <2>6, DupOpened, Zenon
  <2>7. CASE dfds' = dfds /\ dfs' = dfs
    BY <2>1, <2>7, Zenon DEF DupInv
  <2> QED BY <2>1, <2>6, <2>7, Zenon
<1>3. ASSUME NEW f \in DupFiles, Dup!vfs_open_fat(f) PROVE DupInv'
  <2> DEFINE h == Dup!Lowest(Dup!FreeHandles)
             file == Dup!NewFile("fat", h)
  <2>1. /\ Dup!FreeHandles # {} /\ dde' = [dde EXCEPT ![h] = f]
        /\ \/ Dup!vfs_fd_alloc(file) /\ dhandles' = dhandles \cup {h}
           \/ dhandles' = dhandles /\ dfds' = dfds /\ dfs' = dfs
    BY <1>3, Zenon DEF Dup!vfs_open_fat, Dup!ReleaseUnopened
  <2>2. Dup!FreeHandles \subseteq Nat
    BY DupNumbers, Zenon DEF Dup!FreeHandles
  <2>3. h \in Dup!Handle /\ h \in Nat
    BY <2>1, <2>2, DupLowestIn, Zenon DEF Dup!FreeHandles
  <2>4. file \in DupRec /\ file.kind = "fat" /\ file.private = h
    BY <2>3, DupNewFile, Zenon
  <2> HIDE DEF file, h
  <2>5. /\ dde' \in [Dup!Handle -> DupFiles \cup {Null}] /\ dde'[h] \in DupFiles
        /\ \A g \in Dup!Handle : dde[g] \in DupFiles => dde'[g] \in DupFiles
    BY <2>1, <2>3, Zenon DEF DupInv
  <2>6. CASE Dup!vfs_fd_alloc(file) /\ dhandles' = dhandles \cup {h}
    BY <2>3, <2>4, <2>5, <2>6, DupOpened, Zenon
  <2>7. CASE dhandles' = dhandles /\ dfds' = dfds /\ dfs' = dfs
    BY <2>5, <2>7, Zenon DEF DupInv
  <2> QED BY <2>1, <2>6, <2>7, Zenon
<1> QED BY <1>1, <1>2, <1>3, Zenon

LEMMA DupCloses ==
  ASSUME DupInv, NEW fd \in Dup!Fd,
         \/ Dup!vfs_close(fd) \/ Dup!sys_close_socket(fd)
         \/ \E old \in Dup!Fd : Dup!vfs_dup2(old, fd)
  PROVE  DupInv'
<1>1. CASE Dup!vfs_close(fd)
  BY <1>1, DupReleased, Zenon DEF Dup!vfs_close
<1>2. CASE Dup!sys_close_socket(fd)
  <2>1. dfs[dfds[fd]].kind \notin {"fat"}
    BY <1>2 DEF Dup!sys_close_socket, Dup!IsOpen
  <2>2. Dup!CloseHook(fd) = dhandles
    BY <2>1, Zenon DEF Dup!CloseHook, Dup!IsOpen
  <2> QED BY <1>2, <2>2, DupReleased, Zenon DEF Dup!sys_close_socket
<1>3. ASSUME NEW old \in Dup!Fd, Dup!vfs_dup2(old, fd) PROVE DupInv'
  BY <1>3, DupReleased, Zenon DEF Dup!vfs_dup2
<1> QED BY <1>1, <1>2, <1>3, Zenon

LEMMA DupPositions ==
  ASSUME DupInv, NEW fd \in Dup!Fd,
         \/ \E n \in DupOffsets : Dup!vfs_read(fd, n) \/ \E w \in DupWhences : Dup!vfs_lseek(fd, n, w)
         \/ \E nb \in {"no", "yes"} : Dup!vfs_fcntl(fd, nb)
  PROVE  DupInv'
<1> DEFINE f == dfs[dfds[fd]]
<1>1. /\ dfds[fd] # Null
      /\ dfds' = dfds /\ dhandles' = dhandles /\ dde' = dde
  BY Zenon DEF Dup!vfs_read, Dup!vfs_lseek, Dup!vfs_fcntl, Dup!IsOpen
<1>2. /\ dfds[fd] \in Dup!Fd /\ f \in DupRec
      /\ f.kind = "fat" => dde[f.private] \in DupFiles
  BY <1>1, Zenon DEF DupInv
<1>3. ASSUME NEW p \in Dup!Pos, dfs' = [dfs EXCEPT ![dfds[fd]].pos = p] PROVE DupInv'
  <2> DEFINE file == [f EXCEPT !.pos = p]
  <2>1. file \in DupRec /\ file.kind = f.kind /\ file.private = f.private
    BY <1>2 DEF DupRec
  <2>2. dfs' = [dfs EXCEPT ![dfds[fd]] = file]
    BY <1>3, Zenon
  <2> HIDE DEF file
  <2> QED BY <1>1, <1>2, <2>1, <2>2, DupChanged, Zenon
<1>4. ASSUME NEW nb \in {"no", "yes"}, Dup!vfs_fcntl(fd, nb) PROVE DupInv'
  <2> DEFINE file == [f EXCEPT !.nonblock = nb]
  <2>1. file \in DupRec /\ file.kind = f.kind /\ file.private = f.private
    BY <1>2, <1>4 DEF DupRec
  <2>2. dfs' = [dfs EXCEPT ![dfds[fd]] = file]
    BY <1>4, Zenon DEF Dup!vfs_fcntl
  <2> HIDE DEF file
  <2> QED BY <1>1, <1>2, <2>1, <2>2, DupChanged, Zenon
<1>5. f.pos \in Dup!Pos
  BY <1>2, Zenon DEF DupRec
<1>6. ASSUME NEW n \in DupOffsets, Dup!vfs_read(fd, n) PROVE DupInv'
  <2>1. f.kind = "fat" /\ n \in Int /\ n >= 0
    BY <1>6, VfsAssumption DEF Dup!vfs_read, Dup!IsOpen
  <2>2. Size[dde[f.private]] \in Dup!Pos
    BY <1>2, <2>1, VfsAssumption, Zenon DEF Dup!Pos
  <2> HIDE DEF f
  <2>3. Dup!FatRead(f, n) \in Dup!Pos
    BY <1>5, <2>1, <2>2, VfsAssumption DEF Dup!FatRead, Dup!Pos, Dup!MinOf
  <2> QED BY <1>3, <1>6, <2>3, Zenon DEF Dup!vfs_read, f
<1>7. ASSUME NEW n \in DupOffsets, NEW w \in DupWhences, Dup!vfs_lseek(fd, n, w) PROVE DupInv'
  <2> HIDE DEF f
  <2> DEFINE a == CASE w = 0 -> n [] w = 1 -> f.pos + n [] w = 2 -> 0 + n
  <2>1. a \in Int
    BY <1>5, VfsAssumption DEF Dup!Pos
  <2>2. a % 2 ^ PosBits \in Dup!Pos
    <3> HIDE DEF a
    <3> QED BY <2>1, SeekPosition, Zenon DEF Fds!Pos, Dup!Pos
  <2>3. Dup!SeekTo(f, n, w) \in Dup!Pos
    BY <2>2, Zenon DEF Dup!SeekTo
  <2> QED BY <1>3, <1>7, <2>3, Zenon DEF Dup!vfs_lseek, f
<1> QED BY <1>4, <1>6, <1>7, Zenon

LEMMA DupStep == DupInv /\ [Dup!Next]_Dup!vars => DupInv'
<1> SUFFICES ASSUME DupInv, [Dup!Next]_Dup!vars PROVE DupInv'
  BY Zenon
<1>1. CASE UNCHANGED Dup!vars
  BY <1>1, Zenon DEF Dup!vars, DupInv
<1>2. ASSUME NEW d \in Dup!Fd \X Dup!Fd, Dup!vfs_dup2(d[1], d[2]) PROVE DupInv'
  <2>1. d[1] \in Dup!Fd /\ d[2] \in Dup!Fd
    BY Zenon
  <2> QED BY <1>2, <2>1, DupCloses, Zenon
<1>3. ASSUME NEW fd \in Dup!Fd, Dup!vfs_close(fd) \/ Dup!sys_close_socket(fd) PROVE DupInv'
  BY <1>3, DupCloses, Zenon
<1>4. ASSUME NEW fd \in Dup!Fd,
             \/ \E n \in DupOffsets : Dup!vfs_read(fd, n) \/ \E w \in DupWhences : Dup!vfs_lseek(fd, n, w)
             \/ \E nb \in {"no", "yes"} : Dup!vfs_fcntl(fd, nb)
      PROVE  DupInv'
  BY <1>4, DupPositions, Zenon
<1>5. Dup!Fd = 0 .. MaxFd - 1
  BY Zenon DEF Dup!Fd
<1> QED BY <1>1, <1>2, <1>3, <1>4, <1>5, DupOpens, Zenon DEF Dup!Next

LEMMA DupHeld == DupInv => Dup!NoHandleLeak
<1> SUFFICES ASSUME DupInv, NEW h \in dhandles PROVE h \in Dup!PrivateOf("fat")
  BY Zenon DEF Dup!NoHandleLeak
<1>1. PICK i \in Dup!Fd : dfds[i] = i /\ dfs[i].kind = "fat" /\ dfs[i].private = h
  BY Zenon DEF DupInv
<1>2. Dup!IsOpen(i, {"fat"})
  BY <1>1, DupNumbers, Zenon DEF Dup!IsOpen
<1>3. i \in Dup!OpenFiles("fat")
  BY <1>1, <1>2, Zenon DEF Dup!OpenFiles
<1> QED BY <1>1, <1>3, Zenon DEF Dup!PrivateOf

\* The handles of fatfh[] and the sockets in use are those of the open files,
\* one each, whatever calls succeed or fail; and with dup2() as well no handle
\* stays in use that no descriptor leads to, so that the table never runs dry.
THEOREM ResourcesHeldAlways == Fds!Spec /\ Dup!Spec => []ResourcesHeld
<1>1. Fds!Spec => []FdInv
  BY FdInit, FdStep, PTL DEF Fds!Spec
<1>2. Dup!Spec => []DupInv
  BY DupInit, DupStep, PTL DEF Dup!Spec
<1>3. FdInv /\ DupInv => ResourcesHeld
  BY FdsHeld, DupHeld, Zenon DEF ResourcesHeld
<1> QED BY <1>1, <1>2, <1>3, PTL

-----------------------------------------------------------------------------
\* Reading a file: arithmetic of clusters and sectors.

LEMMA DivOf ==
  ASSUME NEW n \in Nat, n > 0, NEW a \in Nat
  PROVE  a \div n \in Nat /\ a % n \in Nat /\ a % n < n /\ a = n * (a \div n) + (a % n)
<1>1. a \div n \in Int /\ a % n \in Int /\ 0 <= a % n /\ a % n < n /\ a = n * (a \div n) + (a % n)
  OBVIOUS
<1>2. a \div n >= 0
  <2> DEFINE q == a \div n
             r == a % n
  <2>1. q \in Int /\ r < n /\ r \in Int /\ a = n * q + r
    BY <1>1
  <2> HIDE DEF q, r
  <2>2. q >= 0
    <3> SUFFICES ASSUME q <= -1 PROVE FALSE
      BY <2>1
    <3>1. n * q <= -n
      BY <2>1
    <3> QED BY <2>1, <3>1
  <2> QED BY <2>2 DEF q
<1> QED BY <1>1, <1>2

\* Products are compared by their factors.
LEMMA DivOrder ==
  ASSUME NEW n \in Nat, n > 0, NEW p \in Nat, NEW q \in Nat, NEW r \in Nat, NEW s \in Nat,
         r < n, n * p + r <= n * q + s, s < n
  PROVE  p <= q
<1> SUFFICES ASSUME p >= q + 1 PROVE FALSE
  OBVIOUS
<1>1. n * p >= n * (q + 1)
  OBVIOUS
<1>2. n * (q + 1) = n * q + n
  OBVIOUS
<1> DEFINE x == n * p
           y == n * q
           z == n * (q + 1)
<1>3. x \in Int /\ y \in Int /\ z \in Int /\ x >= z /\ z = y + n /\ x + r <= y + s
  BY <1>1, <1>2
<1> HIDE DEF x, y, z
<1> QED BY <1>3

LEMMA DivMonotone ==
  ASSUME NEW n \in Nat, n > 0, NEW a \in Nat, NEW b \in Nat, a <= b
  PROVE  a \div n <= b \div n
<1> DEFINE p == a \div n
           q == b \div n
           r == a % n
           s == b % n
<1>1. p \in Nat /\ q \in Nat /\ r \in Nat /\ s \in Nat /\ r < n /\ s < n
  BY DivOf, Zenon
<1>2. a = n * p + r /\ b = n * q + s
  BY DivOf, Zenon
<1> HIDE DEF p, q, r, s
<1>3. n * p + r <= n * q + s
  BY <1>2, Zenon
<1>4. p <= q
  BY <1>1, <1>3, DivOrder, Zenon
<1> QED BY <1>4, Zenon DEF p, q

LEMMA DivSmaller ==
  ASSUME NEW n \in Nat, n > 0, NEW a \in Nat
  PROVE  a \div n <= a
<1> DEFINE q == a \div n
           r == a % n
<1>1. q \in Nat /\ r \in Nat /\ a = n * q + r
  BY DivOf, Zenon
<1> HIDE DEF q, r
<1>2. q <= n * q
  BY <1>1
<1>3. q <= a
  BY <1>1, <1>2
<1> QED BY <1>3, Zenon DEF q

\* Bytes of one cluster.
LEMMA SameCluster ==
  ASSUME NEW n \in Nat, n > 0, NEW a \in Nat, NEW k \in Nat, (a % n) + k < n
  PROVE  (a + k) \div n = a \div n /\ (a + k) % n = (a % n) + k
<1> DEFINE p == a \div n
           r == (a % n) + k
           q == (a + k) \div n
           s == (a + k) % n
<1>1. p \in Nat /\ r \in Nat /\ r < n /\ a + k = n * p + r
  <2>1. a \div n \in Nat /\ a % n \in Nat /\ a = n * (a \div n) + (a % n)
    BY DivOf, Zenon
  <2> QED BY <2>1
<1>2. q \in Nat /\ s \in Nat /\ s < n /\ a + k = n * q + s
  <2>1. a + k \in Nat
    OBVIOUS
  <2> QED BY <2>1, DivOf, Zenon
<1> HIDE DEF p, r, q, s
<1>3. n * p + r <= n * q + s /\ n * q + s <= n * p + r
  <2>1. n * p + r \in Int /\ n * p + r = n * q + s
    BY <1>1, <1>2
  <2> QED BY <2>1
<1>4. p <= q /\ q <= p
  BY <1>1, <1>2, <1>3, DivOrder, Zenon
<1>5. p = q
  BY <1>1, <1>2, <1>4
<1>6. r = s
  BY <1>1, <1>2, <1>5
<1> QED BY <1>5, <1>6, Zenon DEF p, q, r, s

LEMMA Sizes ==
  /\ EntriesPer \in Nat /\ EntriesPer > 0 /\ SecSize \in Nat /\ SecSize > 0
  /\ Spc \in Nat /\ Spc > 0 /\ CacheSlots \in Nat /\ CacheSlots > 0
<1>1. /\ EntriesPer \in Nat \ {0} /\ SecSize \in Nat \ {0}
      /\ Spc \in Nat \ {0} /\ CacheSlots \in Nat \ {0}
  BY VolumeAssumption, Zenon
<1> QED BY <1>1

\* The place of a FAT entry in its sector.
LEMMA EntryPlace ==
  ASSUME NEW clu \in Nat
  PROVE  /\ clu \div EntriesPer \in Nat
         /\ (clu \div EntriesPer) * EntriesPer + (clu % EntriesPer) = clu
<1>1. EntriesPer \in Nat /\ EntriesPer > 0
  BY Sizes, Zenon
<1> DEFINE q == clu \div EntriesPer
           r == clu % EntriesPer
<1>2. q \in Nat /\ r \in Nat /\ clu = EntriesPer * q + r
  BY <1>1, DivOf, Zenon
<1> HIDE DEF q, r
<1>3. q * EntriesPer + r = clu
  BY <1>1, <1>2
<1> QED BY <1>2, <1>3, Zenon DEF q, r

LEMMA Marks ==
  FatFs!FAT_BAD \in Nat /\ FatFs!FAT_EOF_MIN \in Nat /\ FatFs!FAT_BAD < FatFs!FAT_EOF_MIN
  BY SMT DEF FatFs!FAT_BAD, FatFs!FAT_EOF_MIN

LEMMA ClusterSize == FatFs!cbytes \in Nat /\ FatFs!cbytes > 0
<1>1. Spc * SecSize > 0
  BY Sizes
<1> QED BY <1>1, Sizes DEF FatFs!cbytes

-----------------------------------------------------------------------------
\* The chain of a file.

IsChain(f, n, at) ==
  at = [k \in 0 .. n |-> IF k = 0 THEN f.cluster
                         ELSE IF at[k - 1] \in DOMAIN Fat THEN Fat[at[k - 1]] ELSE FatFs!FAT_EOF_MIN]

After(c) == IF c \in DOMAIN Fat THEN Fat[c] ELSE FatFs!FAT_EOF_MIN

LEMMA ChainExists ==
  ASSUME NEW f, NEW n \in Nat
  PROVE  \E at : IsChain(f, n, at)
<1> DEFINE T == {m \in Nat : ~ \E at : IsChain(f, m, at)}
<1>1. SUFFICES ASSUME T # {} PROVE FALSE
  BY Zenon
<1>2. PICK m \in T : \A k \in T : m <= k
  BY <1>1, LeastNumber, Zenon
<1>3. m \in Nat /\ ~ \E at : IsChain(f, m, at)
  BY Zenon
<1> HIDE DEF T
<1>4. m # 0
  <2> DEFINE g == [k \in 0 .. 0 |-> f.cluster]
  <2>1. g = [k \in 0 .. 0 |-> IF k = 0 THEN f.cluster ELSE After(g[k - 1])]
    OBVIOUS
  <2> HIDE DEF g
  <2>2. IsChain(f, 0, g)
    BY <2>1, Zenon DEF IsChain, After
  <2> QED BY <1>3, <2>2, Zenon
<1>5. PICK at : IsChain(f, m - 1, at)
  <2>1. m - 1 \in Nat /\ ~(m <= m - 1)
    BY <1>3, <1>4
  <2> QED BY <1>2, <2>1, Zenon DEF T
<1>6. \A k \in 0 .. m - 1 : at[k] = IF k = 0 THEN f.cluster ELSE After(at[k - 1])
  BY <1>5, Zenon DEF IsChain, After
<1> DEFINE g == [k \in 0 .. m |-> IF k = m THEN After(at[m - 1]) ELSE at[k]]
<1>7. \A k \in 0 .. m : g[k] = IF k = 0 THEN f.cluster ELSE After(g[k - 1])
  <2> SUFFICES ASSUME NEW k \in 0 .. m
               PROVE  g[k] = IF k = 0 THEN f.cluster ELSE After(g[k - 1])
    BY Zenon
  <2>1. CASE k = m
    <3>1. k # 0 /\ m - 1 \in 0 .. m /\ m - 1 # m
      BY <1>3, <1>4, <2>1
    <3> QED BY <2>1, <3>1, Zenon
  <2>2. CASE k # m
    <3>1. k \in 0 .. m - 1 /\ (k # 0 => k - 1 \in 0 .. m /\ k - 1 # m)
      BY <1>3, <2>2
    <3> QED BY <1>6, <2>2, <3>1, Zenon
  <2> QED BY <2>1, <2>2, Zenon
<1>8. g = [k \in 0 .. m |-> g[k]]
  BY Zenon
<1> HIDE DEF g
<1>9. IsChain(f, m, g)
  BY <1>7, <1>8, Zenon DEF IsChain, After
<1> QED BY <1>3, <1>9, Zenon

LEMMA ChainRules ==
  ASSUME NEW f, f.size \in Nat
  PROVE  /\ FatFs!Chain(f)[0] = f.cluster
         /\ \A k \in 1 .. f.size :
              FatFs!Chain(f)[k - 1] \in DOMAIN Fat => FatFs!Chain(f)[k] = Fat[FatFs!Chain(f)[k - 1]]
<1> DEFINE at == FatFs!Chain(f)
<1>1. at = CHOOSE g : IsChain(f, f.size, g)
  BY Zenon DEF FatFs!Chain, IsChain
<1>2. IsChain(f, f.size, at)
  BY <1>1, ChainExists, Zenon
<1> HIDE DEF at
<1>3. \A k \in 0 .. f.size : at[k] = IF k = 0 THEN f.cluster ELSE After(at[k - 1])
  BY <1>2, Zenon DEF IsChain, After
<1>4. 0 \in 0 .. f.size /\ \A k \in 1 .. f.size : k \in 0 .. f.size /\ k # 0
  OBVIOUS
<1> QED BY <1>3, <1>4, Zenon DEF at, After

-----------------------------------------------------------------------------
\* The cache of FAT sectors.

Valid(fc, i) == fc[i] # FatFs!Invalid
Listed(l, i) == \E k \in DOMAIN l : l[k] = i

\* The valid slots come first, each with a sector of its own.
GoodCache(fc, l) ==
  /\ fc \in [FatFs!Slot -> [sec : Int, data : Int]]
  /\ l \in Seq(FatFs!Slot)
  /\ \A i \in FatFs!Slot : Valid(fc, i) => /\ fc[i].sec >= 0 /\ fc[i].data = fc[i].sec
                                           /\ Listed(l, i)
  /\ \A i, j \in FatFs!Slot : i < j /\ Valid(fc, j) => Valid(fc, i)
  /\ \A i, j \in FatFs!Slot : i # j /\ Valid(fc, i) => fc[j].sec # fc[i].sec

LEMMA SlotType == \A i \in FatFs!Slot : i \in Nat /\ i >= 1 /\ \A j \in 1 .. i - 1 : j \in FatFs!Slot /\ j < i
  BY Sizes DEF FatFs!Slot

LEMMA TouchedLists ==
  ASSUME lru \in Seq(FatFs!Slot), NEW i \in FatFs!Slot
  PROVE  /\ FatFs!Touched(i) \in Seq(FatFs!Slot) /\ Listed(FatFs!Touched(i), i)
         /\ \A j \in FatFs!Slot : Listed(lru, j) => Listed(FatFs!Touched(i), j)
<1> DEFINE at == {k \in DOMAIN lru : lru[k] = i}
           p == CHOOSE k \in at : TRUE
           rest == IF at = {} THEN lru ELSE FatFs!Without(lru, p)
           n == Len(lru)
<1>1. FatFs!Touched(i) = Append(rest, i)
  BY Zenon DEF FatFs!Touched
<1>2. n \in Nat /\ DOMAIN lru = 1 .. n /\ \A k \in 1 .. n : lru[k] \in FatFs!Slot
  OBVIOUS
<1>3. /\ rest \in Seq(FatFs!Slot)
      /\ \A j \in FatFs!Slot : Listed(lru, j) /\ j # i => \E k \in 1 .. Len(rest) : rest[k] = j
  <2>1. CASE at = {}
    <3>1. rest = lru
      BY <2>1, Zenon
    <3> HIDE DEF rest
    <3> QED BY <1>2, <3>1, Zenon DEF Listed
  <2>2. CASE at # {}
    <3>1. p \in at
      BY <2>2, Zenon
    <3>2. p \in 1 .. n /\ lru[p] = i /\ rest = FatFs!Without(lru, p)
      BY <1>2, <2>2, <3>1, Zenon
    <3> HIDE DEF rest, p, at, n
    <3>3. n - 1 \in Nat /\ \A k \in 1 .. n - 1 : k \in 1 .. n /\ k + 1 \in 1 .. n
      BY <1>2, <3>2
    <3>4. rest = [k \in 1 .. n - 1 |-> IF k < p THEN lru[k] ELSE lru[k + 1]]
      BY <3>2, Zenon DEF FatFs!Without, n
    <3>5. \A k \in 1 .. n - 1 : rest[k] = IF k < p THEN lru[k] ELSE lru[k + 1]
      BY <3>4, Zenon
    <3>6. \A k \in 1 .. n - 1 : rest[k] \in FatFs!Slot
      BY <1>2, <3>3, <3>5, Zenon
    <3>7. rest \in Seq(FatFs!Slot) /\ Len(rest) = n - 1
      BY <3>3, <3>4, <3>6
    <3>8. ASSUME NEW j \in FatFs!Slot, Listed(lru, j), j # i
          PROVE  \E k \in 1 .. Len(rest) : rest[k] = j
      <4>1. PICK m \in 1 .. n : lru[m] = j
        BY <1>2, <3>8, Zenon DEF Listed
      <4>2. m # p
        BY <3>2, <3>8, <4>1, Zenon
      <4>3. CASE m < p
        <5>1. m \in 1 .. n - 1
          BY <1>2, <3>2, <4>3
        <5> QED BY <3>5, <3>7, <4>1, <4>3, <5>1, Zenon
      <4>4. CASE m > p
        <5>1. m - 1 \in 1 .. n - 1 /\ ~(m - 1 < p) /\ (m - 1) + 1 = m
          BY <1>2, <3>2, <4>4
        <5> QED BY <3>5, <3>7, <4>1, <5>1, Zenon
      <4> QED BY <1>2, <3>2, <4>2, <4>3, <4>4
    <3> QED BY <3>7, <3>8, Zenon
  <2> QED BY <2>1, <2>2, Zenon
<1> HIDE DEF rest, at, p
<1> DEFINE t == Append(rest, i)
<1>4. /\ t \in Seq(FatFs!Slot) /\ DOMAIN t = 1 .. Len(rest) + 1 /\ t[Len(rest) + 1] = i
      /\ Len(rest) + 1 \in 1 .. Len(rest) + 1
      /\ \A k \in 1 .. Len(rest) : t[k] = rest[k] /\ k \in 1 .. Len(rest) + 1
  BY <1>3
<1> HIDE DEF t
<1>5. Listed(t, i)
  BY <1>4, Zenon DEF Listed
<1>6. ASSUME NEW j \in FatFs!Slot, Listed(lru, j) PROVE Listed(t, j)
  BY <1>3, <1>4, <1>5, <1>6, Zenon DEF Listed
<1> QED BY <1>1, <1>4, <1>5, <1>6, Zenon DEF t

\* A sector that the scan does not find is in no slot.
LEMMA NotCached ==
  ASSUME GoodCache(fcache, lru), NEW rel \in Nat, FatFs!Cached(rel) = {}
  PROVE  \A i \in FatFs!Slot : fcache[i].sec # rel
<1> SUFFICES ASSUME NEW i \in FatFs!Slot, fcache[i].sec = rel PROVE FALSE
  BY Zenon
<1>1. Valid(fcache, i)
  <2>1. FatFs!Invalid.sec # rel
    BY DEF FatFs!Invalid
  <2> QED BY <2>1, Zenon DEF Valid
<1>2. \A j \in 1 .. i - 1 : fcache[j] # FatFs!Invalid
  BY <1>1, SlotType, Zenon DEF GoodCache, Valid
<1> QED BY <1>2, Zenon DEF FatFs!Cached

\* The victim, and that the slots before it are valid.
LEMMA VictimOf ==
  ASSUME GoodCache(fcache, lru)
  PROVE  FatFs!Victim \in FatFs!Slot /\ \A j \in FatFs!Slot : j < FatFs!Victim => Valid(fcache, j)
<1>1. CASE \E i \in FatFs!Slot : fcache[i] = FatFs!Invalid
  <2> DEFINE T == {i \in FatFs!Slot : fcache[i] = FatFs!Invalid}
             First(i) == fcache[i] = FatFs!Invalid /\ \A j \in 1 .. i - 1 : fcache[j] # FatFs!Invalid
  <2>1. T \subseteq Nat /\ T # {}
    BY <1>1, SlotType, Zenon
  <2>2. PICK m \in T : \A k \in T : m <= k
    BY <2>1, LeastNumber, Zenon
  <2>3. \A j \in 1 .. m - 1 : ~(m <= j)
    BY <2>1, <2>2
  <2>4. First(m) /\ m \in FatFs!Slot
    BY <2>2, <2>3, SlotType, Zenon
  <2>5. FatFs!Victim = CHOOSE i \in FatFs!Slot : First(i)
    BY <1>1, Zenon DEF FatFs!Victim
  <2> DEFINE v == FatFs!Victim
  <2>6. v \in FatFs!Slot /\ First(v)
    BY <2>4, <2>5, Zenon
  <2> HIDE DEF v
  <2>7. ASSUME NEW j \in FatFs!Slot, j < v PROVE Valid(fcache, j)
    <3>1. j \in 1 .. v - 1
      BY <2>6, <2>7, SlotType
    <3> QED BY <2>6, <3>1, Zenon DEF Valid
  <2> QED BY <2>6, <2>7, Zenon DEF v
<1>2. CASE \A i \in FatFs!Slot : fcache[i] # FatFs!Invalid
  <2>1. 1 \in FatFs!Slot
    BY Sizes DEF FatFs!Slot
  <2>2. PICK k \in DOMAIN lru : lru[k] = 1
    BY <1>2, <2>1, Zenon DEF GoodCache, Valid, Listed
  <2>3. lru \in Seq(FatFs!Slot)
    BY Zenon DEF GoodCache
  <2>4. Head(lru) \in FatFs!Slot
    BY <2>2, <2>3
  <2> QED BY <1>2, <2>4, Zenon DEF FatFs!Victim, Valid
<1> QED BY <1>1, <1>2, Zenon

LEMMA FilledGood ==
  ASSUME GoodCache(fcache, lru), NEW rel \in Nat, FatFs!Cached(rel) = {}
  PROVE  /\ GoodCache(FatFs!Filled(FatFs!Victim, rel), FatFs!Touched(FatFs!Victim))
         /\ FatFs!Filled(FatFs!Victim, rel)[FatFs!Victim].data = rel
<1> DEFINE v == FatFs!Victim
           e == [sec |-> rel, data |-> rel]
           fc == FatFs!Filled(v, rel)
           l == FatFs!Touched(v)
<1>1. v \in FatFs!Slot /\ \A j \in FatFs!Slot : j < v => Valid(fcache, j)
  BY VictimOf, Zenon
<1>2. fcache \in [FatFs!Slot -> [sec : Int, data : Int]] /\ lru \in Seq(FatFs!Slot)
  BY Zenon DEF GoodCache
<1>3. l \in Seq(FatFs!Slot) /\ Listed(l, v) /\ \A j \in FatFs!Slot : Listed(lru, j) => Listed(l, j)
  BY <1>1, <1>2, TouchedLists, Zenon
<1>4. fc = [fcache EXCEPT ![v] = e]
  BY Zenon DEF FatFs!Filled
<1>5. e \in [sec : Int, data : Int] /\ e.sec = rel /\ e.data = rel /\ rel >= 0 /\ e # FatFs!Invalid
  <2>1. FatFs!Invalid.sec = -1
    BY DEF FatFs!Invalid
  <2>2. e.sec = rel /\ e.data = rel /\ rel >= 0 /\ e \in [sec : Int, data : Int]
    OBVIOUS
  <2> HIDE DEF e
  <2>3. rel # -1
    OBVIOUS
  <2> QED BY <2>1, <2>2, <2>3, Zenon
<1>6. \A i \in FatFs!Slot : fcache[i].sec # rel
  BY NotCached, Zenon
<1> HIDE DEF v, e, fc, l
<1>7. fc \in [FatFs!Slot -> [sec : Int, data : Int]]
  BY <1>1, <1>2, <1>4, <1>5, Zenon
<1>8. fc[v] = e /\ \A i \in FatFs!Slot : i # v => fc[i] = fcache[i]
  BY <1>1, <1>2, <1>4, Zenon
<1>9. \A i \in FatFs!Slot : Valid(fc, i) <=> i = v \/ Valid(fcache, i)
  BY <1>5, <1>8, Zenon DEF Valid
<1>10. \A i \in FatFs!Slot : Valid(fc, i) => fc[i].sec >= 0 /\ fc[i].data = fc[i].sec /\ Listed(l, i)
  <2> SUFFICES ASSUME NEW i \in FatFs!Slot, Valid(fc, i)
               PROVE  fc[i].sec >= 0 /\ fc[i].data = fc[i].sec /\ Listed(l, i)
    BY Zenon
  <2>1. CASE i = v
    BY <1>3, <1>5, <1>8, <2>1, Zenon
  <2>2. CASE i # v
    BY <1>3, <1>8, <1>9, <2>2, Zenon DEF GoodCache
  <2> QED BY <2>1, <2>2, Zenon
<1>11. \A i, j \in FatFs!Slot : i < j /\ Valid(fc, j) => Valid(fc, i)
  BY <1>1, <1>9, Zenon DEF GoodCache
<1>12. \A i, j \in FatFs!Slot : i # j /\ Valid(fc, i) => fc[j].sec # fc[i].sec
  <2> SUFFICES ASSUME NEW i \in FatFs!Slot, NEW j \in FatFs!Slot, i # j, Valid(fc, i)
               PROVE  fc[j].sec # fc[i].sec
    BY Zenon
  <2>1. CASE i = v
    BY <1>5, <1>6, <1>8, <2>1, Zenon
  <2>2. CASE j = v
    BY <1>5, <1>6, <1>8, <2>2, Zenon
  <2>3. CASE i # v /\ j # v
    BY <1>8, <1>9, <2>3, Zenon DEF GoodCache
  <2> QED BY <2>1, <2>2, <2>3, Zenon
<1>13. GoodCache(fc, l)
  BY <1>3, <1>7, <1>10, <1>11, <1>12, Zenon DEF GoodCache
<1> QED BY <1>5, <1>8, <1>13, Zenon DEF v, fc, l

\* fat_next() keeps the cache true and returns what the FAT has, or the end
\* after a failed read.
LEMMA NextOf ==
  ASSUME GoodCache(fcache, lru), NEW clu \in Nat, NEW next, FatFs!fat_next(clu, next)
  PROVE  /\ GoodCache(fcache', lru')
         /\ clu \in DOMAIN Fat => \/ next = Fat[clu]
                                  \/ next = FatFs!FAT_EOF_MIN /\ failed' = "yes"
<1> DEFINE rel == clu \div EntriesPer
           entry(data) == Fat[data * EntriesPer + (clu % EntriesPer)]
<1>1. rel \in Nat /\ entry(rel) = Fat[clu]
  BY EntryPlace, Zenon
<1>2. CASE clu < 2 \/ clu >= FatFs!FAT_BAD
  <2>1. clu \notin DOMAIN Fat
    <3>1. DOMAIN Fat \subseteq 2 .. FatFs!FAT_BAD - 1
      BY VolumeAssumption, Zenon
    <3>2. clu \notin 2 .. FatFs!FAT_BAD - 1
      BY <1>2, Marks
    <3> QED BY <3>1, <3>2, Zenon
  <2>2. fcache' = fcache /\ lru' = lru
    BY <1>2, Zenon DEF FatFs!fat_next
  <2> QED BY <2>1, <2>2, Zenon
<1>3. CASE ~(clu < 2 \/ clu >= FatFs!FAT_BAD)
  <2>1. \/ \E i \in FatFs!Cached(rel) :
             lru' = FatFs!Touched(i) /\ next = entry(fcache[i].data) /\ fcache' = fcache
        \/ /\ FatFs!Cached(rel) = {}
           /\ fcache' = FatFs!Filled(FatFs!Victim, rel) /\ lru' = FatFs!Touched(FatFs!Victim)
           /\ next = entry(fcache'[FatFs!Victim].data)
        \/ failed' = "yes" /\ fcache' = fcache /\ lru' = lru /\ next = FatFs!FAT_EOF_MIN
    BY <1>3, Zenon DEF FatFs!fat_next, FatFs!Unread
  <2> HIDE DEF rel, entry
  <2>2. ASSUME NEW i \in FatFs!Cached(rel),
               lru' = FatFs!Touched(i), next = entry(fcache[i].data), fcache' = fcache
        PROVE  GoodCache(fcache', lru') /\ next = entry(rel)
    <3>1. i \in FatFs!Slot /\ fcache[i].sec = rel
      BY Zenon DEF FatFs!Cached
    <3>2. FatFs!Invalid.sec # rel
      BY <1>1 DEF FatFs!Invalid
    <3>3. Valid(fcache, i)
      BY <3>1, <3>2, Zenon DEF Valid
    <3>4. fcache[i].data = rel
      BY <3>1, <3>3, Zenon DEF GoodCache
    <3>5. lru \in Seq(FatFs!Slot)
      BY Zenon DEF GoodCache
    <3>6. lru' \in Seq(FatFs!Slot) /\ \A j \in FatFs!Slot : Listed(lru, j) => Listed(lru', j)
      BY <2>2, <3>1, <3>5, TouchedLists, Zenon
    <3> QED BY <2>2, <3>4, <3>6, Zenon DEF GoodCache
  <2>3. ASSUME FatFs!Cached(rel) = {},
               fcache' = FatFs!Filled(FatFs!Victim, rel), lru' = FatFs!Touched(FatFs!Victim),
               next = entry(fcache'[FatFs!Victim].data)
        PROVE  GoodCache(fcache', lru') /\ next = entry(rel)
    BY <1>1, <2>3, FilledGood, Zenon
  <2> QED BY <1>1, <2>1, <2>2, <2>3, Zenon
<1> QED BY <1>2, <1>3, Zenon

-----------------------------------------------------------------------------
\* The call.

IsCall(r) ==
  r = [pc |-> r.pc, file |-> r.file, off |-> r.off, len |-> r.len, c |-> r.c, skip |-> r.skip,
       pin |-> r.pin, rem |-> r.rem, got |-> r.got, rc |-> r.rc]

Active == {"skip", "cluster", "sector"}

\* The bytes of cluster c from b on.
Stretch(c, b, m) == [i \in 1 .. m |-> <<c, b + (i - 1)>>]

\* The cluster that a read is about.
Home(r) == FatFs!Chain(r.file)[r.off \div FatFs!cbytes]

\* A read inside one cluster, after the first len - rem bytes.
Within(r) ==
  /\ r.off \in Nat /\ r.len \in Nat /\ r.len >= 1 /\ r.off + r.len <= r.file.size
  /\ (r.off % FatFs!cbytes) + r.len <= FatFs!cbytes
  /\ r.rem \in Nat /\ r.rem <= r.len
  /\ r.got = Stretch(Home(r), r.off % FatFs!cbytes, r.len - r.rem)
  /\ r.rem > 0 => r.pin = (r.off % FatFs!cbytes) + (r.len - r.rem)

Skipping(r) ==
  /\ r.rem = r.len /\ r.skip \in Nat /\ r.skip <= r.off \div FatFs!cbytes
  /\ r.c = FatFs!Chain(r.file)[(r.off \div FatFs!cbytes) - r.skip]

BytesFrom(f, off, len) == [i \in 1 .. len |-> FatFs!ByteOf(f, off + i - 1)]

Answer(r, fail) ==
  \/ r.rc = r.len /\ r.got = BytesFrom(r.file, r.off, r.len)
  \/ r.rc = -1 /\ fail = "yes"

Right(r, fail) ==
  /\ r.pc \in Active => Within(r)
  /\ r.pc = "skip" => Skipping(r)
  /\ r.pc = "cluster" /\ r.rem > 0 => r.c = Home(r)
  /\ r.pc = "sector" => r.c = Home(r)
  /\ r.pc = "done" => Answer(r, fail)

GoodCall(r, fail) ==
  /\ IsCall(r) /\ r.c \in Nat /\ r.file \in [cluster : Nat, size : Nat]
  /\ FatFs!Intact(r.file) => Right(r, fail)

FatInv == GoodCache(fcache, lru) /\ GoodCall(call, failed)

\* The clusters up to the one that byte off is in are there.
LEMMA ChainTo ==
  ASSUME NEW f \in [cluster : Nat, size : Nat], FatFs!Intact(f), NEW off \in Nat, off < f.size,
         NEW k \in Nat, k <= off \div FatFs!cbytes
  PROVE  /\ FatFs!Chain(f)[k] \in DOMAIN Fat
         /\ k > 0 => FatFs!Chain(f)[k] = Fat[FatFs!Chain(f)[k - 1]]
<1> DEFINE n == FatFs!cbytes
           last == f.size - 1
<1>1. n \in Nat /\ n > 0
  BY ClusterSize, Zenon
<1>2. f.size \in Nat
  BY Zenon
<1>3. last \in Nat /\ off <= last
  BY <1>2
<1> HIDE DEF n
<1>4. off \div n \in Nat /\ last \div n \in Nat /\ off \div n <= last \div n /\ last \div n <= last
  BY <1>1, <1>3, DivOf, DivMonotone, DivSmaller, Zenon
<1> DEFINE q == off \div n
           t == last \div n
<1>5. q \in Nat /\ t \in Nat /\ q <= t /\ t <= last /\ k <= q
  BY <1>4, Zenon DEF n
<1>6. \A j \in 0 .. t : FatFs!Chain(f)[j] \in DOMAIN Fat
  BY Zenon DEF FatFs!Intact, n
<1> HIDE DEF q, t
<1>7. k \in 0 .. t /\ (k > 0 => k - 1 \in 0 .. t /\ k \in 1 .. f.size)
  BY <1>2, <1>5
<1> QED BY <1>2, <1>6, <1>7, ChainRules, Zenon

LEMMA ClusterNumber ==
  ASSUME NEW c \in DOMAIN Fat
  PROVE  c \in Nat /\ ~(c < 2) /\ ~(c >= FatFs!FAT_BAD) /\ ~(c >= FatFs!FAT_EOF_MIN) /\ Fat[c] \in Nat
<1>1. c \in 2 .. FatFs!FAT_BAD - 1 /\ Fat[c] \in Nat
  BY VolumeAssumption, Zenon
<1> QED BY <1>1, Marks

LEMMA EntryNumber == \A next \in FatFs!Entries : next \in Nat
  BY ClusterNumber, Marks, Zenon DEF FatFs!Entries

LEMMA StretchMore ==
  ASSUME NEW c, NEW b \in Nat, NEW m \in Nat, NEW n \in Nat
  PROVE  Stretch(c, b, m) \o Stretch(c, b + m, n) = Stretch(c, b, m + n)
<1> DEFINE s == Stretch(c, b, m)
           t == Stretch(c, b + m, n)
           S == {c} \X Nat
<1>1. s \in Seq(S) /\ Len(s) = m /\ \A i \in 1 .. m : s[i] = <<c, b + (i - 1)>>
  BY DEF Stretch
<1>2. t \in Seq(S) /\ Len(t) = n /\ \A i \in 1 .. n : t[i] = <<c, (b + m) + (i - 1)>>
  BY DEF Stretch
<1> HIDE DEF s, t, S
<1>3. /\ s \o t = [i \in 1 .. m + n |-> (s \o t)[i]]
      /\ \A i \in 1 .. m + n : (s \o t)[i] = IF i <= m THEN s[i] ELSE t[i - m]
  <2>1. s \in Seq(S) /\ Len(s) = m /\ t \in Seq(S) /\ Len(t) = n
    BY <1>1, <1>2, Zenon
  <2>2. s \o t \in Seq(S) /\ Len(s \o t) = m + n
    BY <2>1
  <2>3. \A i \in 1 .. m + n : (s \o t)[i] = IF i <= m THEN s[i] ELSE t[i - m]
    BY <2>1
  <2> DEFINE u == s \o t
  <2>4. u \in Seq(S) /\ Len(u) = m + n
    BY <2>2
  <2> HIDE DEF u
  <2>5. u = [i \in 1 .. m + n |-> u[i]]
    BY <2>4
  <2> QED BY <2>3, <2>5, Zenon DEF u
<1>4. ASSUME NEW i \in 1 .. m + n PROVE (s \o t)[i] = <<c, b + (i - 1)>>
  <2>1. CASE i <= m
    <3>1. i \in 1 .. m
      BY <2>1
    <3> QED BY <1>1, <1>3, <2>1, <3>1, Zenon
  <2>2. CASE ~(i <= m)
    <3>1. i - m \in 1 .. n /\ (b + m) + ((i - m) - 1) = b + (i - 1)
      BY <2>2
    <3> QED BY <1>2, <1>3, <2>2, <3>1, Zenon
  <2> QED BY <2>1, <2>2, Zenon
<1> QED BY <1>3, <1>4, Zenon DEF Stretch, s, t

LEMMA StretchOf ==
  ASSUME NEW f, NEW off \in Nat, NEW len \in Nat, (off % FatFs!cbytes) + len <= FatFs!cbytes
  PROVE  Stretch(FatFs!Chain(f)[off \div FatFs!cbytes], off % FatFs!cbytes, len)
           = BytesFrom(f, off, len)
<1> DEFINE n == FatFs!cbytes
           ch == FatFs!Chain(f)
<1>1. n \in Nat /\ n > 0
  BY ClusterSize, Zenon
<1>2. off % n \in Nat
  BY <1>1, DivOf, Zenon
<1> HIDE DEF n, ch
<1>3. ASSUME NEW i \in 1 .. len
      PROVE  <<ch[off \div n], (off % n) + (i - 1)>> = <<ch[(off + i - 1) \div n], (off + i - 1) % n>>
  <2> DEFINE k == i - 1
             r == off % n
  <2>1. k \in Nat /\ r \in Nat /\ r + len <= n /\ k < len
    BY <1>2 DEF n
  <2> HIDE DEF r, k
  <2>2. r + k < n
    BY <1>1, <2>1
  <2>3. (off + k) \div n = off \div n /\ (off + k) % n = (off % n) + k
    BY <1>1, <2>1, <2>2, SameCluster, Zenon DEF r
  <2> QED BY <2>3, Zenon DEF k
<1> QED BY <1>3, Zenon DEF Stretch, BytesFrom, FatFs!ByteOf, n, ch

LEMMA StartStep ==
  ASSUME FatInv, NEW f \in FatFiles, NEW off \in 0 .. MaxOff, NEW len \in 0 .. MaxRead,
         FatFs!fat16_read_file(f, off, len)
  PROVE  FatInv'
<1> DEFINE n == FatFs!MinOf(len, f.size - off)
           cb == FatFs!cbytes
<1>1. f \in [cluster : Nat, size : Nat] /\ off \in Nat /\ len \in Nat
  <2>1. f \in [cluster : Nat, size : Nat] /\ MaxOff \in Nat /\ MaxRead \in Nat
    BY VolumeAssumption, Zenon
  <2> QED BY <2>1
<1>2. cb \in Nat /\ cb > 0
  BY ClusterSize, Zenon
<1>3. off \div cb \in Nat /\ off % cb \in Nat
  BY <1>1, <1>2, DivOf, Zenon
<1>4. ~((off % cb) + n > cb) /\ fcache' = fcache /\ lru' = lru
  BY Zenon DEF FatFs!fat16_read_file
<1>5. CASE off >= f.size \/ len = 0
  <2>1. call' = [pc |-> "done", file |-> f, off |-> off, len |-> 0, c |-> 0,
                 skip |-> 0, pin |-> 0, rem |-> 0, got |-> <<>>, rc |-> 0]
    BY <1>5, Zenon DEF FatFs!fat16_read_file, FatFs!Idle
  <2>2. /\ IsCall(call') /\ call'.c = 0 /\ call'.file = f /\ call'.pc = "done"
        /\ call'.len = 0 /\ call'.rc = 0 /\ call'.got = <<>>
    BY <2>1 DEF IsCall
  <2>3. <<>> = BytesFrom(f, call'.off, 0)
    BY DEF BytesFrom
  <2>4. Answer(call', failed')
    BY <2>2, <2>3, Zenon DEF Answer
  <2>5. Right(call', failed')
    BY <2>2, <2>4 DEF Right, Active
  <2>6. call'.c \in Nat
    BY <2>2
  <2> QED BY <1>1, <1>4, <2>2, <2>5, <2>6, Zenon DEF FatInv, GoodCall
<1>6. CASE ~(off >= f.size \/ len = 0)
  <2>1. f.size \in Nat /\ f.cluster \in Nat
    BY <1>1, Zenon
  <2>2. n \in Nat /\ n >= 1 /\ off + n <= f.size
    BY <1>1, <1>6, <2>1 DEF FatFs!MinOf
  <2>3. call' = [pc |-> "skip", file |-> f, off |-> off, len |-> n, c |-> f.cluster,
                 skip |-> off \div cb, pin |-> off % cb, rem |-> n, got |-> <<>>, rc |-> 0]
    BY <1>6, Zenon DEF FatFs!fat16_read_file, FatFs!Idle
  <2> HIDE DEF n, cb
  <2>4. /\ IsCall(call') /\ call'.c = f.cluster /\ call'.file = f /\ call'.pc = "skip"
        /\ call'.off = off /\ call'.len = n /\ call'.rem = n /\ call'.got = <<>>
        /\ call'.skip = off \div cb /\ call'.pin = off % cb
    BY <2>3 DEF IsCall
  <2>5. (off % cb) + n <= cb /\ n - n = 0 /\ (off % cb) + 0 = off % cb /\ n <= n
    BY <1>2, <1>3, <1>4, <2>2
  <2>6. <<>> = Stretch(Home(call'), off % cb, 0)
    BY DEF Stretch
  <2>7. Within(call')
    <3>1. call'.rem > 0 => call'.pin = (off % cb) + (n - n)
      BY <2>4, <2>5, Zenon
    <3>2. call'.got = Stretch(Home(call'), off % cb, n - n)
      BY <2>4, <2>5, <2>6, Zenon
    <3> QED BY <1>1, <2>2, <2>4, <2>5, <3>1, <3>2, Zenon DEF Within, cb
  <2>8. Skipping(call')
    <3>1. (off \div cb) - (off \div cb) = 0 /\ off \div cb <= off \div cb
      BY <1>3
    <3>2. FatFs!Chain(f)[0] = f.cluster
      BY <2>1, ChainRules, Zenon
    <3> QED BY <1>3, <2>4, <3>1, <3>2, Zenon DEF Skipping, cb
  <2>9. Right(call', failed')
    BY <2>4, <2>7, <2>8 DEF Right
  <2> QED BY <1>1, <1>4, <2>1, <2>4, <2>9, Zenon DEF FatInv, GoodCall
<1> QED BY <1>5, <1>6, Zenon

\* The reading of an intact file at its cluster.
LEMMA HomeThere ==
  ASSUME NEW r, r.file \in [cluster : Nat, size : Nat], FatFs!Intact(r.file), Within(r)
  PROVE  /\ r.off < r.file.size /\ r.off \div FatFs!cbytes \in Nat
         /\ r.off % FatFs!cbytes \in Nat /\ Home(r) \in DOMAIN Fat
<1>1. r.off \in Nat /\ r.len \in Nat /\ r.len >= 1 /\ r.off + r.len <= r.file.size /\ r.file.size \in Nat
  BY Zenon DEF Within
<1>2. r.off < r.file.size
  BY <1>1
<1>3. r.off \div FatFs!cbytes \in Nat /\ r.off % FatFs!cbytes \in Nat
  BY <1>1, ClusterSize, DivOf, Zenon
<1>4. r.off \div FatFs!cbytes <= r.off \div FatFs!cbytes
  BY <1>3
<1> QED BY <1>1, <1>2, <1>3, <1>4, ChainTo, Zenon DEF Home

LEMMA SkipStep ==
  ASSUME FatInv, FatFs!SkipCluster
  PROVE  FatInv'
<1>1. /\ IsCall(call) /\ call.c \in Nat /\ call.file \in [cluster : Nat, size : Nat]
      /\ call.pc = "skip" /\ GoodCache(fcache, lru)
  BY Zenon DEF FatInv, GoodCall, FatFs!SkipCluster
<1>2. FatFs!Intact(call.file) => Within(call) /\ Skipping(call)
  BY <1>1 DEF FatInv, GoodCall, Right, Active
<1>3. ASSUME call.skip > 0, NEW next \in FatFs!Entries, FatFs!fat_next(call.c, next),
             IF next < 2 \/ next >= FatFs!FAT_EOF_MIN THEN FatFs!Return(-1)
             ELSE call' = [call EXCEPT !.c = next, !.skip = @ - 1]
      PROVE  FatInv'
  <2>1. GoodCache(fcache', lru') /\ next \in Nat
    BY <1>1, <1>3, NextOf, EntryNumber, Zenon
  <2> DEFINE q == call.off \div FatFs!cbytes
             ch == FatFs!Chain(call.file)
             k == (q - call.skip) + 1
  <2>2. ASSUME FatFs!Intact(call.file)
        PROVE  /\ q - (call.skip - 1) = k /\ call.skip - 1 \in Nat /\ call.skip - 1 <= q
               /\ \/ next = ch[k] /\ ch[k] \in DOMAIN Fat
                  \/ next = FatFs!FAT_EOF_MIN /\ failed' = "yes"
    <3>1. Within(call) /\ Skipping(call)
      BY <1>2, <2>2, Zenon
    <3>2. call.off \in Nat /\ call.off < call.file.size /\ q \in Nat
      BY <1>1, <2>2, <3>1, HomeThere, Zenon DEF Within
    <3>3. call.skip \in Nat /\ call.skip <= q /\ call.c = ch[q - call.skip]
      BY <3>1, Zenon DEF Skipping
    <3> DEFINE j == q - call.skip
    <3> HIDE DEF q, ch
    <3>4. /\ j \in Nat /\ j <= q /\ k \in Nat /\ k > 0 /\ k - 1 = j /\ k <= q
          /\ q - (call.skip - 1) = k /\ call.skip - 1 \in Nat /\ call.skip - 1 <= q
      BY <1>3, <3>2, <3>3
    <3> HIDE DEF j, k
    <3>5. ch[j] \in DOMAIN Fat
      BY <1>1, <2>2, <3>2, <3>4, ChainTo, Zenon DEF q, ch
    <3>6. ch[k] \in DOMAIN Fat /\ ch[k] = Fat[ch[k - 1]]
      BY <1>1, <2>2, <3>2, <3>4, ChainTo, Zenon DEF q, ch
    <3>7. call.c = ch[j]
      BY <3>3, Zenon DEF j
    <3>8. next = Fat[call.c] \/ (next = FatFs!FAT_EOF_MIN /\ failed' = "yes")
      BY <1>1, <1>3, <3>5, <3>7, NextOf, Zenon
    <3> QED BY <3>4, <3>6, <3>7, <3>8, Zenon
  <2> HIDE DEF q, ch, k
  <2>3. CASE next < 2 \/ next >= FatFs!FAT_EOF_MIN
    <3>1. call' = [call EXCEPT !.pc = "done", !.rc = -1]
      BY <1>3, <2>3, Zenon DEF FatFs!Return
    <3>2. /\ IsCall(call') /\ call'.c = call.c /\ call'.file = call.file
          /\ call'.pc = "done" /\ call'.rc = -1
      BY <1>1, <3>1, Zenon DEF IsCall
    <3>3. FatFs!Intact(call.file) => failed' = "yes"
      BY <2>2, <2>3, ClusterNumber, Zenon
    <3>4. FatFs!Intact(call.file) => Right(call', failed')
      BY <3>2, <3>3 DEF Right, Active, Answer
    <3> QED BY <1>1, <2>1, <3>2, <3>4, Zenon DEF FatInv, GoodCall
  <2>4. CASE ~(next < 2 \/ next >= FatFs!FAT_EOF_MIN)
    <3>1. call' = [call EXCEPT !.c = next, !.skip = @ - 1]
      BY <1>3, <2>4, Zenon
    <3>2. /\ IsCall(call') /\ call'.c = next /\ call'.skip = call.skip - 1 /\ call'.pc = call.pc
          /\ call'.file = call.file /\ call'.off = call.off /\ call'.len = call.len
          /\ call'.pin = call.pin /\ call'.rem = call.rem /\ call'.got = call.got
      BY <1>1, <3>1, Zenon DEF IsCall
    <3>3. next # FatFs!FAT_EOF_MIN
      BY <2>4, Marks
    <3>4. ASSUME FatFs!Intact(call.file) PROVE Within(call') /\ Skipping(call')
      <4>1. Within(call')
        BY <1>2, <3>2, <3>4, Zenon DEF Within, Home
      <4>2. next = ch[q - (call.skip - 1)] /\ call.skip - 1 \in Nat /\ call.skip - 1 <= q
        BY <2>2, <3>3, <3>4, Zenon
      <4> QED BY <1>2, <3>2, <3>4, <4>1, <4>2, Zenon DEF Skipping, q, ch
    <3>5. FatFs!Intact(call.file) => Right(call', failed')
      BY <1>1, <3>2, <3>4 DEF Right
    <3> QED BY <1>1, <2>1, <3>2, <3>5, Zenon DEF FatInv, GoodCall
  <2> QED BY <2>3, <2>4, Zenon
<1>4. ASSUME call.skip = 0, call' = [call EXCEPT !.pc = "cluster"], fcache' = fcache, lru' = lru
      PROVE  FatInv'
  <2>1. /\ IsCall(call') /\ call'.pc = "cluster" /\ call'.c = call.c
        /\ call'.file = call.file /\ call'.off = call.off /\ call'.len = call.len
        /\ call'.pin = call.pin /\ call'.rem = call.rem /\ call'.got = call.got
    BY <1>1, <1>4 DEF IsCall
  <2>2. ASSUME FatFs!Intact(call.file) PROVE Within(call') /\ call'.c = Home(call')
    <3>1. Within(call')
      BY <1>2, <2>1, <2>2, Zenon DEF Within, Home
    <3>2. call.off \div FatFs!cbytes \in Nat
      BY <1>1, <1>2, <2>2, HomeThere, Zenon
    <3>3. (call.off \div FatFs!cbytes) - call.skip = call.off \div FatFs!cbytes
      BY <1>4, <3>2
    <3> QED BY <1>2, <2>1, <2>2, <3>1, <3>3, Zenon DEF Skipping, Home
  <2>3. FatFs!Intact(call.file) => Right(call', failed')
    BY <2>1, <2>2 DEF Right
  <2> QED BY <1>1, <1>4, <2>1, <2>3, Zenon DEF FatInv, GoodCall
<1> QED BY <1>3, <1>4, Zenon DEF FatFs!SkipCluster

LEMMA EnterStep ==
  ASSUME FatInv, FatFs!EnterCluster
  PROVE  FatInv'
<1>1. /\ IsCall(call) /\ call.c \in Nat /\ call.file \in [cluster : Nat, size : Nat]
      /\ call.pc = "cluster" /\ GoodCache(fcache', lru')
  BY Zenon DEF FatInv, GoodCall, FatFs!EnterCluster
<1>2. FatFs!Intact(call.file) => Within(call) /\ (call.rem > 0 => call.c = Home(call))
  BY <1>1 DEF FatInv, GoodCall, Right, Active
<1>3. CASE call.rem = 0
  <2>1. call' = [call EXCEPT !.pc = "done", !.rc = call.len]
    BY <1>3, Zenon DEF FatFs!EnterCluster, FatFs!Return
  <2>2. /\ IsCall(call') /\ call'.c = call.c /\ call'.file = call.file /\ call'.off = call.off
        /\ call'.len = call.len /\ call'.got = call.got /\ call'.pc = "done" /\ call'.rc = call.len
    BY <1>1, <2>1, Zenon DEF IsCall
  <2>3. ASSUME FatFs!Intact(call.file) PROVE Answer(call', failed')
    <3>1. /\ call.off \in Nat /\ call.len \in Nat
          /\ (call.off % FatFs!cbytes) + call.len <= FatFs!cbytes
          /\ call.got = Stretch(Home(call), call.off % FatFs!cbytes, call.len - call.rem)
      BY <1>2, <2>3, Zenon DEF Within
    <3>2. call.len - call.rem = call.len
      BY <1>3, <3>1
    <3>3. call.got = BytesFrom(call.file, call.off, call.len)
      <4>1. Stretch(Home(call), call.off % FatFs!cbytes, call.len)
              = BytesFrom(call.file, call.off, call.len)
        BY <3>1, StretchOf, Zenon DEF Home
      <4> QED BY <3>1, <3>2, <4>1, Zenon
    <3> QED BY <2>2, <3>3, Zenon DEF Answer
  <2>4. FatFs!Intact(call.file) => Right(call', failed')
    BY <2>2, <2>3 DEF Right, Active
  <2> QED BY <1>1, <2>2, <2>4, Zenon DEF FatInv, GoodCall
<1>4. CASE call.rem # 0 /\ (call.c < 2 \/ call.c >= FatFs!FAT_BAD)
  <2>1. \E rc : call' = [call EXCEPT !.pc = "done", !.rc = rc]
    BY <1>4, Zenon DEF FatFs!EnterCluster, FatFs!Return
  <2>2. IsCall(call') /\ call'.c = call.c /\ call'.file = call.file
    BY <1>1, <2>1, Zenon DEF IsCall
  <2>3. ASSUME FatFs!Intact(call.file) PROVE FALSE
    <3>1. call.rem \in Nat /\ Home(call) \in DOMAIN Fat
      BY <1>1, <1>2, <2>3, HomeThere, Zenon DEF Within
    <3>2. call.rem > 0
      BY <1>4, <3>1
    <3> QED BY <1>2, <1>4, <2>3, <3>1, <3>2, ClusterNumber, Zenon
  <2> QED BY <1>1, <2>2, <2>3, Zenon DEF FatInv, GoodCall
<1>5. CASE call.rem # 0 /\ ~(call.c < 2 \/ call.c >= FatFs!FAT_BAD)
  <2>1. call' = [call EXCEPT !.pc = "sector"]
    BY <1>5, Zenon DEF FatFs!EnterCluster
  <2>2. /\ IsCall(call') /\ call'.pc = "sector" /\ call'.c = call.c
        /\ call'.file = call.file /\ call'.off = call.off /\ call'.len = call.len
        /\ call'.pin = call.pin /\ call'.rem = call.rem /\ call'.got = call.got
    BY <1>1, <2>1, Zenon DEF IsCall
  <2>3. ASSUME FatFs!Intact(call.file) PROVE Within(call') /\ call'.c = Home(call')
    <3>1. Within(call') /\ call.rem \in Nat
      BY <1>2, <2>2, <2>3, Zenon DEF Within, Home
    <3>2. call.rem > 0
      BY <1>5, <3>1
    <3> QED BY <1>2, <2>2, <2>3, <3>1, <3>2, Zenon DEF Home
  <2>4. FatFs!Intact(call.file) => Right(call', failed')
    BY <2>2, <2>3 DEF Right
  <2> QED BY <1>1, <2>2, <2>4, Zenon DEF FatInv, GoodCall
<1> QED BY <1>3, <1>4, <1>5, Zenon

\* What a turn of the inner loop copies: a stretch of the sector.
LEMMA PieceOf ==
  ASSUME NEW pin \in Nat, NEW rem \in Nat, rem > 0
  PROVE  /\ FatFs!Piece(pin, rem) \in Nat /\ FatFs!Piece(pin, rem) <= rem
         /\ \A i \in 1 .. FatFs!Piece(pin, rem) : (pin % SecSize) + i <= SecSize
<1> DEFINE s == pin % SecSize
<1>1. s \in Nat /\ s < SecSize
  BY Sizes, DivOf, Zenon
<1> HIDE DEF s
<1>2. FatFs!Piece(pin, rem) = IF SecSize - s < rem THEN SecSize - s ELSE rem
  BY Zenon DEF FatFs!Piece, FatFs!MinOf, s
<1>3. /\ FatFs!Piece(pin, rem) \in Nat /\ FatFs!Piece(pin, rem) <= rem
      /\ \A i \in 1 .. FatFs!Piece(pin, rem) : s + i <= SecSize
  BY <1>1, <1>2, Sizes
<1> QED BY <1>3, Zenon DEF s

LEMMA CopyStep ==
  ASSUME FatInv, FatFs!CopySector
  PROVE  FatInv'
<1> DEFINE n == FatFs!Piece(call.pin, call.rem)
           pin == call.pin + n
           bytes == [i \in 1 .. n |-> IF (call.pin % SecSize) + i <= SecSize
                                      THEN <<call.c, call.pin + i - 1>> ELSE FatFs!Junk]
           back == IF pin >= FatFs!cbytes THEN 0 ELSE pin
<1>1. /\ IsCall(call) /\ call.c \in Nat /\ call.file \in [cluster : Nat, size : Nat]
      /\ call.pc = "sector" /\ call.rem > 0 /\ GoodCache(fcache', lru')
  BY Zenon DEF FatInv, GoodCall, FatFs!CopySector
<1>2. FatFs!Intact(call.file) => Within(call) /\ call.c = Home(call)
  BY <1>1 DEF FatInv, GoodCall, Right, Active
<1>3. \/ call' = [call EXCEPT !.got = @ \o bytes, !.rem = @ - n, !.pin = back]
      \/ failed' = "yes" /\ call' = [call EXCEPT !.pc = "done", !.rc = -1]
  BY Zenon DEF FatFs!CopySector, FatFs!Return
<1> HIDE DEF n, pin, bytes, back
<1>4. ASSUME failed' = "yes", call' = [call EXCEPT !.pc = "done", !.rc = -1] PROVE FatInv'
  <2>1. /\ IsCall(call') /\ call'.c = call.c /\ call'.file = call.file
        /\ call'.pc = "done" /\ call'.rc = -1
    BY <1>1, <1>4, Zenon DEF IsCall
  <2>2. Right(call', failed')
    BY <1>4, <2>1 DEF Right, Active, Answer
  <2> QED BY <1>1, <2>1, <2>2, Zenon DEF FatInv, GoodCall
<1>5. ASSUME call' = [call EXCEPT !.got = @ \o bytes, !.rem = @ - n, !.pin = back] PROVE FatInv'
  <2>1. /\ IsCall(call') /\ call'.pc = call.pc /\ call'.c = call.c
        /\ call'.file = call.file /\ call'.off = call.off /\ call'.len = call.len
        /\ call'.pin = back /\ call'.rem = call.rem - n /\ call'.got = call.got \o bytes
    BY <1>1, <1>5, Zenon DEF IsCall
  <2>2. ASSUME FatFs!Intact(call.file) PROVE Within(call') /\ call'.c = Home(call')
    <3> DEFINE cb == FatFs!cbytes
               b == call.off % cb
               m == call.len - call.rem
    <3>1. /\ call.off \in Nat /\ call.len \in Nat /\ b + call.len <= cb
          /\ call.rem \in Nat /\ call.rem <= call.len /\ call.pin = b + m
          /\ call.got = Stretch(call.c, b, m)
      BY <1>1, <1>2, <2>2, Zenon DEF Within
    <3>2. cb \in Nat /\ b \in Nat
      BY <1>1, <1>2, <2>2, ClusterSize, HomeThere, Zenon
    <3> HIDE DEF cb, b
    <3>3. m \in Nat /\ call.pin \in Nat
      BY <3>1, <3>2
    <3>4. n \in Nat /\ n <= call.rem /\ \A i \in 1 .. n : (call.pin % SecSize) + i <= SecSize
      BY <1>1, <3>1, <3>3, PieceOf, Zenon DEF n
    <3>5. bytes = Stretch(call.c, b + m, n)
      BY <3>1, <3>4, Zenon DEF bytes, Stretch
    <3>6. call'.got = Stretch(call.c, b, m + n)
      <4> HIDE DEF m
      <4>1. Stretch(call.c, b, m) \o Stretch(call.c, b + m, n) = Stretch(call.c, b, m + n)
        BY <3>2, <3>3, <3>4, StretchMore, ZenonT(60)
      <4> QED BY <2>1, <3>1, <3>5, <4>1, Zenon
    <3>7. call.len - (call.rem - n) = m + n /\ call.rem - n \in Nat /\ call.rem - n <= call.len
      BY <3>1, <3>4
    <3>8. call.rem - n > 0 => back = b + (m + n)
      BY <1>1, <3>1, <3>2, <3>3, <3>4 DEF back, pin, cb
    <3>9. call'.c = Home(call')
      BY <1>2, <2>1, <2>2, Zenon DEF Home
    <3>10. /\ call.off \in Nat /\ call.len \in Nat /\ call.len >= 1
           /\ call.off + call.len <= call.file.size
      BY <1>2, <2>2, Zenon DEF Within
    <3> HIDE DEF m
    <3> QED BY <2>1, <3>1, <3>6, <3>7, <3>8, <3>9, <3>10, Zenon DEF Within, b, cb
  <2>3. FatFs!Intact(call.file) => Right(call', failed')
    BY <1>1, <2>1, <2>2 DEF Right
  <2> QED BY <1>1, <2>1, <2>3, Zenon DEF FatInv, GoodCall
<1> QED BY <1>3, <1>4, <1>5, Zenon

LEMMA NextStep ==
  ASSUME FatInv, FatFs!NextCluster
  PROVE  FatInv'
<1>1. /\ IsCall(call) /\ call.c \in Nat /\ call.file \in [cluster : Nat, size : Nat]
      /\ call.pc = "sector" /\ call.rem = 0 /\ GoodCache(fcache, lru)
  BY Zenon DEF FatInv, GoodCall, FatFs!NextCluster
<1>2. FatFs!Intact(call.file) => Within(call)
  BY <1>1 DEF FatInv, GoodCall, Right, Active
<1>3. PICK next \in FatFs!Entries :
        /\ FatFs!fat_next(call.c, next)
        /\ call' = [call EXCEPT !.pc = "cluster", !.pin = 0, !.c = next]
  BY Zenon DEF FatFs!NextCluster
<1>4. GoodCache(fcache', lru') /\ next \in Nat
  BY <1>1, <1>3, NextOf, EntryNumber, Zenon
<1>5. /\ IsCall(call') /\ call'.pc = "cluster" /\ call'.c = next
      /\ call'.file = call.file /\ call'.off = call.off /\ call'.len = call.len
      /\ call'.rem = call.rem /\ call'.got = call.got
  BY <1>1, <1>3, Zenon DEF IsCall
<1>6. ~(call.rem > 0)
  BY <1>1
<1>7. FatFs!Intact(call.file) => Within(call')
  BY <1>2, <1>5, <1>6, Zenon DEF Within, Home
<1>8. FatFs!Intact(call.file) => Right(call', failed')
  BY <1>5, <1>6, <1>7 DEF Right
<1> QED BY <1>1, <1>4, <1>5, <1>8, Zenon DEF FatInv, GoodCall

LEMMA IdleCall ==
  /\ IsCall(FatFs!Idle) /\ FatFs!Idle.c = 0 /\ FatFs!Idle.c \in Nat
  /\ FatFs!Idle.file \in [cluster : Nat, size : Nat] /\ FatFs!Idle.pc = "idle"
  BY DEF FatFs!Idle, IsCall

LEMMA IdleGood == ASSUME NEW fail PROVE GoodCall(FatFs!Idle, fail)
<1>1. Right(FatFs!Idle, fail)
  BY IdleCall DEF Right, Active
<1> QED BY <1>1, IdleCall, Zenon DEF GoodCall

LEMMA FatInit == FatFs!Init => FatInv
<1> SUFFICES ASSUME FatFs!Init PROVE FatInv
  BY Zenon
<1>1. FatFs!Invalid \in [sec : Int, data : Int]
  BY DEF FatFs!Invalid
<1>2. fcache \in [FatFs!Slot -> [sec : Int, data : Int]] /\ \A i \in FatFs!Slot : ~Valid(fcache, i)
  BY <1>1, Zenon DEF FatFs!Init, Valid
<1>3. lru \in Seq(FatFs!Slot)
  BY DEF FatFs!Init
<1>4. GoodCache(fcache, lru)
  BY <1>2, <1>3, Zenon DEF GoodCache
<1> QED BY <1>4, IdleGood, Zenon DEF FatInv, FatFs!Init

LEMMA FatNext == FatInv /\ [FatFs!Next]_(FatFs!vars) => FatInv'
<1> SUFFICES ASSUME FatInv, [FatFs!Next]_(FatFs!vars) PROVE FatInv'
  BY Zenon
<1>1. ASSUME NEW f \in FatFiles, NEW off \in 0 .. MaxOff, NEW len \in 0 .. MaxRead,
             FatFs!fat16_read_file(f, off, len)
      PROVE  FatInv'
  BY <1>1, StartStep, Zenon
<1>2. CASE FatFs!Result
  BY <1>2, IdleGood, Zenon DEF FatFs!Result, FatInv
<1>3. CASE UNCHANGED FatFs!vars
  BY <1>3, Zenon DEF FatFs!vars, FatInv
<1> QED BY <1>1, <1>2, <1>3, SkipStep, EnterStep, CopyStep, NextStep, Zenon DEF FatFs!Next

LEMMA FatRight == FatInv => ReadsFile
<1> SUFFICES ASSUME FatInv PROVE ReadsFile
  BY Zenon
<1>1. FatFs!ReadsFile
  BY Zenon DEF FatInv, GoodCall, Right, Answer, BytesFrom, FatFs!ReadsFile
<1>2. FatFs!CacheTrue
  BY Zenon DEF FatInv, GoodCache, Valid, Listed, FatFs!CacheTrue
<1> QED BY <1>1, <1>2, Zenon DEF ReadsFile

\* fat16_read_file() returns the bytes of the file, or an error after the disk
\* failed, for every read inside a cluster, every FAT and every size of sector,
\* cluster and cache; the cache never serves one FAT sector for another.
THEOREM FileReadTrue == FatFs!Spec => []ReadsFile
<1>1. FatFs!Init => FatInv
  BY FatInit
<1>2. FatInv /\ [FatFs!Next]_(FatFs!vars) => FatInv'
  BY FatNext
<1>3. FatInv => ReadsFile
  BY FatRight
<1> QED BY <1>1, <1>2, <1>3, PTL DEF FatFs!Spec

=============================================================================
