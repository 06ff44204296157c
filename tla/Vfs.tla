-------------------------------- MODULE Vfs ---------------------------------
(***************************************************************************)
(* The descriptor table for tables, files and sockets of any number: as    *)
(* used by programs that share no file_t (Fds), and by programs that also  *)
(* call dup2() (Dup).  The two share no state.                             *)
(***************************************************************************)
EXTENDS Integers

CONSTANTS
  MaxFd, NumStd, NumHandles, NumSocks, Files, Size, PosBits, Offsets, Whences, Null,
  DupSocks, DupFiles, DupOffsets, DupWhences   \* what the programs with dup2() use

\* A file is at most as large as a position can tell.
ASSUME VfsAssumption ==
  /\ MaxFd \in Nat /\ NumStd \in 0 .. MaxFd /\ NumHandles \in Nat /\ NumSocks \in Nat
  /\ 2 ^ PosBits \in Nat \ {0}
  /\ Size \in [Files -> 0 .. 2 ^ PosBits - 1] /\ Offsets \subseteq Int /\ Whences \subseteq {0, 1, 2}
  /\ DupSocks \in Nat /\ DupFiles \subseteq Files /\ DupOffsets \subseteq Int
  /\ DupWhences \subseteq {0, 1, 2}
  /\ Null \notin Nat

VARIABLES
  ffds, fs, handles, de, socks,
  dfds, dfs, dhandles, dde, dsocks

Fds == INSTANCE Descriptors WITH Dups <- {}, fds <- ffds, None <- Null

Dup == INSTANCE Descriptors WITH
  NumSocks <- DupSocks, Files <- DupFiles, Offsets <- DupOffsets, Whences <- DupWhences,
  Dups <- (0 .. MaxFd - 1) \X (0 .. MaxFd - 1), None <- Null,
  fds <- dfds, fs <- dfs, handles <- dhandles, de <- dde, socks <- dsocks

\* vfs_open(), vfs_close(), vfs_read(), vfs_lseek() and the socket calls keep to
\* the descriptor they are given: with neither a file_t nor a FAT handle shared,
\* the table implements FileTable, lowest-numbered allocation included.
Own == INSTANCE FileTable WITH
  Fd <- Fds!Fd, Objects <- Fds!Objects, Positions <- Fds!Pos, Closed <- Null,
  Start <- Fds!Start, table <- Fds!Entries
OwnFiles == Own!Spec

\* A null pointer is no file.
ASSUME NullAssumption == Null \notin Own!Entry

\* A FAT handle or a socket is in use exactly when one open file has it: the
\* handles and the sockets are neither lost on the error paths of vfs_open() and
\* SYS_SOCKET nor freed under a descriptor.  Also with dup2() no FAT handle is
\* lost: its close hook runs when the last descriptor that leads to it goes.
ResourcesHeld == Fds!ResourcesHeld /\ Dup!NoHandleLeak

=============================================================================
