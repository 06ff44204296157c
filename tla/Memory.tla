------------------------------- MODULE Memory -------------------------------
(***************************************************************************)
(* What fork() promises about memory: every address space is private.  A   *)
(* fork copies the memory of the parent, a write changes one page of one   *)
(* space, and nothing else ever changes the memory of anybody.  Only       *)
(* programs are loaded into the space that exec'd programs share.          *)
(***************************************************************************)
CONSTANTS
  Spaces,   \* address spaces
  Shared,   \* the space of the programs loaded by exec
  VPage,    \* user pages of a space
  Values,   \* page contents
  Unmapped  \* no page here

VARIABLE mem   \* mem[s][v], the content of page v of space s

Empty == [v \in VPage |-> Unmapped]

Init == mem = [s \in Spaces |-> Empty]

\* A page of a program is loaded.
Load(v, x) == mem' = [mem EXCEPT ![Shared][v] = x]

Write(s, v, x) ==
  /\ mem[s][v] # Unmapped
  /\ mem' = [mem EXCEPT ![s][v] = x]

Fork(p, c) ==
  /\ mem[c] = Empty
  /\ mem' = [mem EXCEPT ![c] = mem[p]]

Exit(s) == mem' = [mem EXCEPT ![s] = Empty]

Next ==
  \/ \E v \in VPage, x \in Values : Load(v, x)
  \/ \E s \in Spaces, v \in VPage, x \in Values : Write(s, v, x)
  \/ \E p \in Spaces, c \in Spaces \ {Shared} : Fork(p, c)
  \/ \E s \in Spaces \ {Shared} : Exit(s)

Spec == Init /\ [][Next]_mem

=============================================================================
