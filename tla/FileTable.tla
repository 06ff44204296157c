------------------------------ MODULE FileTable -----------------------------
(***************************************************************************)
(* What a descriptor table promises: a descriptor is closed or stands for  *)
(* one object with a position, and no call on another descriptor changes   *)
(* either.                                                                 *)
(***************************************************************************)
EXTENDS Integers

CONSTANTS
  Fd,         \* descriptors
  Objects,    \* what can be opened
  Positions,  \* file positions
  Closed,     \* a descriptor that is not open
  Start       \* the table at the start

VARIABLE table

Entry == [obj : Objects, pos : Positions]

\* The lowest descriptor that is closed stands for o, at its beginning.
Open(fd, o) ==
  /\ table[fd] = Closed
  /\ \A lower \in Fd : lower < fd => table[lower] # Closed
  /\ table' = [table EXCEPT ![fd] = [obj |-> o, pos |-> 0]]

Close(fd) ==
  /\ table[fd] # Closed
  /\ table' = [table EXCEPT ![fd] = Closed]

Move(fd, p) ==
  /\ table[fd] # Closed
  /\ table' = [table EXCEPT ![fd].pos = p]

Init == table = Start

Next ==
  \E fd \in Fd :
    \/ \E o \in Objects : Open(fd, o)
    \/ \E p \in Positions : Move(fd, p)
    \/ Close(fd)

Spec == Init /\ [][Next]_table

=============================================================================
