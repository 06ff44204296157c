------------------------------ MODULE Keyboard ------------------------------
(***************************************************************************)
(* The PS/2 keyboard driver drivers/keyboard.c: the IRQ1 handler kh(),     *)
(* which turns scan codes into bytes of a ring, and the readers of         *)
(* /dev/kbd (kread() of fs/vfs.c, drivers/kbdwait.c), which empty it.      *)
(*                                                                         *)
(* A byte of the ring is its serial number.  A read starts with interrupts *)
(* off, but the `sti; hlt' with which it waits leaves them on: from then   *)
(* on another reader may run between the load of t and its store.          *)
(***************************************************************************)
EXTENDS Integers, Sequences

CONSTANTS
  Readers,     \* the processes that read /dev/kbd
  RingSize,    \* the 256 slots of q[]; h and t wrap as uint8_t does
  MaxKeys      \* bound: how often a key goes down

NoIndex == -1
Slots == 0 .. RingSize - 1
ShiftKeys == {"LSHIFT", "RSHIFT"}
CtrlKeys == {"LCTRL", "RCTRL"}
Keys == ShiftKeys \cup CtrlKeys \cup {"LETTER", "SYMBOL", "UP", "PAUSE"}
KB_PAUSE_TRAIL == 7

VARIABLES
  q, h, t,            \* the ring: the IRQ writes at h, the readers at t
  ks, e1_left,        \* the prefix state of kh()
  shift, ctrl,
  wire,               \* the scan codes the handler has not read yet
  held,               \* the keys that are down
  pressed,            \* how many times a key went down
  paused,             \* whether Pause has been pressed
  accepted,           \* the bytes queued, oldest first
  got,                \* the bytes delivered, to whichever reader
  serial,             \* bytes offered to the ring
  reading             \* of each reader: "out", or "on" with interrupts on; and the t it loaded

ring == <<q, h, t>>
mode == <<ks, e1_left, shift, ctrl>>
keys == <<wire, held, pressed, paused>>
vars == <<ring, mode, keys, accepted, got, serial, reading>>

Init ==
  /\ q = [i \in Slots |-> 0] /\ h = 0 /\ t = 0
  /\ ks = "BASE" /\ e1_left = 0 /\ shift = FALSE /\ ctrl = FALSE
  /\ wire = <<>> /\ held = {} /\ pressed = 0 /\ paused = FALSE
  /\ accepted = <<>> /\ got = <<>> /\ serial = 0
  /\ reading = [r \in Readers |-> [at |-> "out", t |-> NoIndex]]

----------------------------------------------------------------------------
(* The keyboard.  RCtrl sends the code of LCtrl after an E0.               *)

Make(c) == [code |-> c, break |-> FALSE]
Break(c) == [code |-> c, break |-> TRUE]
E0 == Make("E0")
E1 == Make("E1")

Down(k) ==
  CASE k = "RCTRL" -> <<E0, Make("LCTRL")>>
    [] k = "UP"    -> <<E0, Make("UP")>>
    [] k = "PAUSE" -> <<E1, Make("LCTRL"), Make("NUM"), E1, Break("LCTRL"), Break("NUM")>>
    [] OTHER       -> <<Make(k)>>

Up(k) ==
  CASE k = "RCTRL" -> <<E0, Break("LCTRL")>>
    [] k = "UP"    -> <<E0, Break("UP")>>
    [] OTHER       -> <<Break(k)>>

\* A key goes down, or repeats; Pause has no break code.
Press(k) ==
  /\ wire = <<>> /\ pressed < MaxKeys
  /\ wire' = Down(k)
  /\ held' = IF k = "PAUSE" THEN held ELSE held \cup {k}
  /\ pressed' = pressed + 1
  /\ paused' = (paused \/ k = "PAUSE")
  /\ UNCHANGED <<ring, mode, accepted, got, serial, reading>>

Release(k) ==
  /\ wire = <<>> /\ k \in held
  /\ wire' = Up(k)
  /\ held' = held \ {k}
  /\ UNCHANGED <<ring, mode, pressed, paused, accepted, got, serial, reading>>

----------------------------------------------------------------------------
(* IRQ1.                                                                   *)

NextIndex(i) == (i + 1) % RingSize

IsFull_Wraps(head, tail) == FALSE

\* putc_q() drops a byte that would make h meet t.
IsFull(head, tail) == NextIndex(head) = tail

\* putc_q_str(): n bytes one by one, each dropped when the ring is full.
Put(n) ==
  LET room == CHOOSE m \in 0 .. n :
                /\ \A j \in 0 .. m - 1 : ~IsFull((h + j) % RingSize, t)
                /\ m < n => IsFull((h + m) % RingSize, t)
  IN  /\ q' = [i \in Slots |-> LET j == (i - h) % RingSize
                               IN  IF j < room THEN serial + 1 + j ELSE q[i]]
      /\ h' = (h + room) % RingSize
      /\ accepted' = accepted \o [j \in 1 .. room |-> serial + j]
      /\ serial' = serial + n

Nothing == UNCHANGED <<q, h, accepted, serial>>

ReleasesShift_Left(code) == code = "LSHIFT"

ReleasesShift(code) == code \in ShiftKeys

\* What a make code queues: a letter always, a symbol unless Ctrl is down.
Types(code) == code = "LETTER" \/ (code = "SYMBOL" /\ ~ctrl)

kh ==
  /\ wire # <<>>
  /\ wire' = Tail(wire)
  /\ LET s == Head(wire) IN
     \/ /\ ks = "E1"
        /\ e1_left' = e1_left - 1
        /\ ks' = IF e1_left' = 0 THEN "BASE" ELSE "E1"
        /\ UNCHANGED <<shift, ctrl>> /\ Nothing
     \/ /\ ks = "E0"
        /\ ks' = "BASE"
        /\ ctrl' = (ctrl /\ ~(s.break /\ s.code = "LCTRL"))
        /\ IF ~s.break /\ s.code = "UP" THEN Put(3) ELSE Nothing
        /\ UNCHANGED <<e1_left, shift>>
     \/ /\ ks = "BASE" /\ s = E0
        /\ ks' = "E0" /\ UNCHANGED <<e1_left, shift, ctrl>> /\ Nothing
     \/ /\ ks = "BASE" /\ s = E1
        /\ ks' = "E1" /\ e1_left' = KB_PAUSE_TRAIL
        /\ UNCHANGED <<shift, ctrl>> /\ Nothing
     \/ /\ ks = "BASE" /\ s.break
        /\ shift' = (shift /\ ~ReleasesShift(s.code))
        /\ ctrl' = (ctrl /\ s.code # "LCTRL")
        /\ UNCHANGED <<ks, e1_left>> /\ Nothing
     \/ /\ ks = "BASE" /\ ~s.break /\ s \notin {E0, E1}
        /\ shift' = (shift \/ s.code \in ShiftKeys)
        /\ ctrl' = (ctrl \/ s.code = "LCTRL")
        /\ IF Types(s.code) THEN Put(1) ELSE Nothing
        /\ UNCHANGED <<ks, e1_left>>
  /\ UNCHANGED <<t, held, pressed, paused, got, reading>>

----------------------------------------------------------------------------
(* The readers.                                                            *)

\* keyboard_getchar() with interrupts off: the first byte of a read.
getchar(r) ==
  /\ reading[r].at = "out" /\ t # h
  /\ got' = Append(got, q[t])
  /\ t' = NextIndex(t)
  /\ UNCHANGED <<q, h, mode, keys, accepted, serial, reading>>

\* The ring is empty: keyboard_getchar_blocking() waits with `sti; hlt'.
wait(r) ==
  /\ reading[r].at = "out" /\ t = h
  /\ reading' = [reading EXCEPT ![r].at = "on"]
  /\ UNCHANGED <<ring, mode, keys, accepted, got, serial>>

\* With interrupts on: the test t == h, which loads t ...
getchar_load(r) ==
  /\ reading[r] = [at |-> "on", t |-> NoIndex] /\ t # h
  /\ reading' = [reading EXCEPT ![r].t = t]
  /\ UNCHANGED <<ring, mode, keys, accepted, got, serial>>

\* ... and q[t++], from the loaded t.  The read goes on (n > 1) or returns.
getchar_take(r) ==
  /\ reading[r].t # NoIndex
  /\ got' = Append(got, q[reading[r].t])
  /\ t' = NextIndex(reading[r].t)
  /\ \E at \in {"on", "out"} : reading' = [reading EXCEPT ![r] = [at |-> at, t |-> NoIndex]]
  /\ UNCHANGED <<q, h, mode, keys, accepted, serial>>

\* The time is up, or no further byte is there: the read returns.
return(r) ==
  /\ reading[r] = [at |-> "on", t |-> NoIndex] /\ t = h
  /\ reading' = [reading EXCEPT ![r].at = "out"]
  /\ UNCHANGED <<ring, mode, keys, accepted, got, serial>>

Next ==
  \/ \E k \in Keys : Press(k) \/ Release(k)
  \/ kh
  \/ \E r \in Readers :
       getchar(r) \/ wait(r) \/ getchar_load(r) \/ getchar_take(r) \/ return(r)

Spec == Init /\ [][Next]_vars

----------------------------------------------------------------------------

\* The bytes in the ring, oldest first.
Unread == [j \in 1 .. (h - t) % RingSize |-> q[(t + j - 1) % RingSize]]

\* "Every byte is delivered to exactly one reader, first come first served"
\* (the comment at kread()): what the readers got and what the ring still
\* holds are together the bytes the IRQ queued, each once, in order.
DeliveredOnce == got \o Unread = accepted

\* No modifier is stuck: when every code has been read, shift (ctrl) is set
\* only while a Shift (the left Ctrl) key is down.  Not so after Pause, whose
\* KB_PAUSE_TRAIL swallows two codes too many.
NoStuckModifier ==
  wire = <<>> /\ ~paused =>
    /\ shift => held \cap ShiftKeys # {}
    /\ ctrl => "LCTRL" \in held

=============================================================================
