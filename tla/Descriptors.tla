----------------------------- MODULE Descriptors ----------------------------
(***************************************************************************)
(* The descriptor table shared by all processes: fs/vfs.c, with the socket *)
(* and close calls of kernel/syscall.c.  fds[] holds pointers into the     *)
(* static array fs[]; a FAT file also has a handle of fatfh[], a socket    *)
(* (here: UDP) a slot of udp_socks[].  A call runs with interrupts off, so *)
(* it is one step.  Device and block nodes are one kind, without position. *)
(***************************************************************************)
EXTENDS Integers

CONSTANTS
  MaxFd,      \* VFS_MAX_FD
  NumStd,     \* standard streams installed by vfs_init()
  NumHandles, \* FAT_OPEN_MAX
  NumSocks,   \* UDP_SLOTS
  Files,      \* the files of the FAT volume
  Size,       \* their sizes
  PosBits,    \* the width of a file position (32)
  Offsets,    \* offsets and lengths that programs use
  Whences,    \* 0, 1, 2: SEEK_SET, SEEK_CUR, SEEK_END
  Dups,       \* pairs <<oldfd, newfd>> that programs pass to dup2
  None        \* a null pointer

Fd == 0 .. MaxFd - 1
Handle == 0 .. NumHandles - 1
Sock == 0 .. NumSocks - 1
Pos == 0 .. 2 ^ PosBits - 1

VARIABLES
  fds,     \* fds[fd]: the element of fs it points to, or None
  fs,      \* fs[]; an element nobody points to is None (it is overwritten when used again)
  handles, \* the handles of fatfh[] with used set
  de,      \* fatfh[].de: the file of a handle
  socks    \* the slots of udp_socks[] with used set

vars == <<fds, fs, handles, de, socks>>

Lowest(S) == CHOOSE x \in S : \A y \in S : x <= y
FreeHandles == Handle \ handles
FreeFds_AboveStd == {fd \in Fd : fd >= NumStd /\ fds[fd] = None}
FreeFds == {fd \in Fd : fds[fd] = None}
NewFile(kind, private) == [kind |-> kind, private |-> private, pos |-> 0, nonblock |-> "no"]
IsOpen(fd, kinds) == fds[fd] # None /\ fs[fds[fd]].kind \in kinds

\* After vfs_init().
Init ==
  /\ fds = [fd \in Fd |-> IF fd < NumStd THEN fd ELSE None]
  /\ fs = [fd \in Fd |-> IF fd < NumStd THEN NewFile("dev", None) ELSE None]
  /\ handles = {}
  /\ de = [h \in Handle |-> None]
  /\ socks = {}

-----------------------------------------------------------------------------
(* Opening.                                                                *)

\* vfs_fd_alloc() with a free descriptor: the lowest, and the element of fs[]
\* with the same index.
vfs_fd_alloc(file) ==
  LET fd == Lowest(FreeFds)
  IN /\ FreeFds # {}
     /\ fds' = [fds EXCEPT ![fd] = fd]
     /\ fs' = [fs EXCEPT ![fd] = file]

\* vfs_open() of a device or block node.  Without a free descriptor nothing happens.
vfs_open_dev ==
  /\ vfs_fd_alloc(NewFile("dev", None))
  /\ UNCHANGED <<handles, de, socks>>

\* What vfs_open() does with the handle when there was no descriptor for it.
ReleaseUnopened_Forgotten(h) == handles \cup {h}
ReleaseUnopened(h) == handles

\* vfs_open() of f below /mnt/fat: the first free handle is filled by
\* fat16_lookup(), and is given back when there is no descriptor.
vfs_open_fat(f) ==
  LET h == Lowest(FreeHandles)
  IN /\ FreeHandles # {}
     /\ de' = [de EXCEPT ![h] = f]
     /\ \/ /\ vfs_fd_alloc(NewFile("fat", h))
           /\ handles' = handles \cup {h}
        \/ /\ FreeFds = {}
           /\ handles' = ReleaseUnopened(h)
           /\ UNCHANGED <<fds, fs>>
     /\ UNCHANGED socks

\* What SYS_SOCKET does with the socket when there was no descriptor for it:
\* net_socket_close() of the socket just opened.
ReleaseUninstalled(s) == (socks \cup {s}) \ {s}

\* SYS_SOCKET: net_socket_open() takes the first free slot, which is given back
\* when vfs_socket_install() finds no descriptor.
sys_socket ==
  LET s == Lowest(Sock \ socks)
  IN /\ Sock \ socks # {}
     /\ \/ /\ vfs_fd_alloc(NewFile("sock", s))
           /\ socks' = socks \cup {s}
        \/ /\ FreeFds = {}
           /\ socks' = ReleaseUninstalled(s)
           /\ UNCHANGED <<fds, fs>>
     /\ UNCHANGED <<handles, de>>

-----------------------------------------------------------------------------
(* Closing and duplicating.                                                *)

\* fs[] after the pointers of fds become p.
Kept(p) == [i \in Fd |-> IF \E fd \in Fd : p[fd] = i THEN fs[i] ELSE None]

\* The close hook of the inode behind fd: fat_close() frees the handle, device
\* nodes have none, and sockets no inode.
CloseHook(fd) == IF IsOpen(fd, {"fat"}) THEN handles \ {fs[fds[fd]].private} ELSE handles

\* vfs_close()
vfs_close(fd) ==
  /\ IsOpen(fd, {"dev", "fat"})
  /\ handles' = CloseHook(fd)
  /\ fds' = [fds EXCEPT ![fd] = None]
  /\ fs' = Kept(fds')
  /\ UNCHANGED <<de, socks>>

\* SYS_CLOSE of a socket: net_socket_close(), and vfs_socket_close() when that
\* succeeds.  A socket that is closed already keeps its descriptor (-9).
sys_close_socket(fd) ==
  /\ IsOpen(fd, {"sock"})
  /\ fs[fds[fd]].private \in socks
  /\ socks' = socks \ {fs[fds[fd]].private}
  /\ fds' = [fds EXCEPT ![fd] = None]
  /\ fs' = Kept(fds')
  /\ UNCHANGED <<handles, de>>

\* vfs_dup2(): newfd is closed when it is open (a socket is only forgotten) and
\* then shares the file_t of oldfd.
vfs_dup2(oldfd, newfd) ==
  /\ fds[oldfd] # None
  /\ oldfd # newfd
  /\ handles' = CloseHook(newfd)
  /\ fds' = [fds EXCEPT ![newfd] = fds[oldfd]]
  /\ fs' = Kept(fds')
  /\ UNCHANGED <<de, socks>>

-----------------------------------------------------------------------------
(* Reading, positions and flags.                                           *)

MinOf(a, b) == IF a < b THEN a ELSE b

\* fat_read(): as many of n bytes as the file still has; the position moves on.
FatRead(f, n) ==
  LET size == Size[de[f.private]]
  IN IF f.pos >= size THEN f.pos ELSE f.pos + MinOf(n, size - f.pos)

vfs_read(fd, n) ==
  /\ IsOpen(fd, {"fat"})
  /\ n >= 0
  /\ fs' = [fs EXCEPT ![fds[fd]].pos = FatRead(fs[fds[fd]], n)]
  /\ UNCHANGED <<fds, handles, de, socks>>

\* The position vfs_lseek() computes, in unsigned arithmetic.  The size it adds
\* for SEEK_END is that of the inode, which for FAT files is a template of size 0.
SeekTo(f, off, whence) ==
  (CASE whence = 0 -> off
     [] whence = 1 -> f.pos + off
     [] whence = 2 -> 0 + off) % 2 ^ PosBits

\* (int32_t)p < 0
Negative(p) == p >= 2 ^ (PosBits - 1)

vfs_lseek(fd, off, whence) ==
  /\ IsOpen(fd, {"fat"})
  /\ LET p == SeekTo(fs[fds[fd]], off, whence)
     IN /\ whence # 2 => ~Negative(p)
        /\ fs' = [fs EXCEPT ![fds[fd]].pos = p]
  /\ UNCHANGED <<fds, handles, de, socks>>

\* vfs_fcntl(F_SETFL)
vfs_fcntl(fd, nb) ==
  /\ fds[fd] # None
  /\ fs' = [fs EXCEPT ![fds[fd]].nonblock = nb]
  /\ UNCHANGED <<fds, handles, de, socks>>

Next ==
  \/ vfs_open_dev
  \/ \E f \in Files : vfs_open_fat(f)
  \/ sys_socket
  \/ \E fd \in Fd :
       \/ vfs_close(fd)
       \/ sys_close_socket(fd)
       \/ \E n \in Offsets : vfs_read(fd, n) \/ \E w \in Whences : vfs_lseek(fd, n, w)
       \/ \E nb \in {"no", "yes"} : vfs_fcntl(fd, nb)
  \/ \E d \in Dups : vfs_dup2(d[1], d[2])

Spec == Init /\ [][Next]_vars

-----------------------------------------------------------------------------
(* Properties.                                                             *)

OpenFiles(kind) == {fds[fd] : fd \in {x \in Fd : IsOpen(x, {kind})}}
PrivateOf(kind) == {fs[i].private : i \in OpenFiles(kind)}

\* The object behind a descriptor: the file its handle holds, or its socket.
ObjectOf(fd) ==
  LET f == fs[fds[fd]]
  IN IF fds[fd] = None THEN None
     ELSE CASE f.kind = "dev" -> <<"dev">> [] f.kind = "fat" -> <<"fat", de[f.private]>>
            [] f.kind = "sock" -> <<"sock", f.private>>

\* The table as programs see it: what a descriptor stands for, and where it is.
Objects == {<<"dev">>} \cup {<<"fat", f>> : f \in Files} \cup {<<"sock", s>> : s \in Sock}
Start == [fd \in Fd |-> IF fd < NumStd THEN [obj |-> <<"dev">>, pos |-> 0] ELSE None]
Entries == [fd \in Fd |-> IF fds[fd] = None THEN None
                          ELSE [obj |-> ObjectOf(fd), pos |-> fs[fds[fd]].pos]]

\* What is in use is what the open files of this kind have, one each.
HeldBy(kind, used) ==
  /\ used = PrivateOf(kind)
  /\ \A i, j \in OpenFiles(kind) : fs[i].private = fs[j].private => i = j

\* A FAT handle or a socket is in use exactly when one open file has it: the
\* eight handles and the sockets are neither lost on the error paths of
\* vfs_open() and SYS_SOCKET nor freed under a descriptor, and SYS_CLOSE of a
\* socket never finds it closed already.
ResourcesHeld == HeldBy("fat", handles) /\ HeldBy("sock", socks)

\* Also with dup2() no FAT handle is lost: its close hook runs when the last
\* descriptor that leads to it goes, so that opening cannot fail for ever.
NoHandleLeak == handles \subseteq PrivateOf("fat")

=============================================================================
