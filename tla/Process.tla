------------------------------ MODULE Process ------------------------------
(***************************************************************************)
(* The process table, the ready queue, exit/waitpid/kill and the           *)
(* round-robin scheduler of kernel/process.c, with the syscall layer of    *)
(* kernel/syscall.c that drives them.  There is one CPU.  int 0x80 is an   *)
(* interrupt gate, so a syscall runs with interrupts off, except after the *)
(* `sti;hlt' of poll() and of a blocking keyboard read, which nobody       *)
(* undoes before the syscall returns.  A SIGTERM delivered at the end of   *)
(* such a call makes the whole exit run with interrupts on, pick_next()    *)
(* and the switch included (NoTornExit excludes it).  Of that exit the     *)
(* model has the ticks inside exit_process_code(), which are enough to     *)
(* lose a wake-up, and not those inside schedule_next(): nothing is        *)
(* claimed to hold after one.                                              *)
(*                                                                         *)
(* A slot of pcb[] is its own pid and slot 0 is the kernel context, which  *)
(* also hosts the boot probe.  Each field of the PCB is a function on the  *)
(* slots.  The field pid is not kept: it is 0 exactly when the state is    *)
(* CREATED (slots 1 and up).  The exit code is not kept: no decision of    *)
(* the kernel reads it.                                                    *)
(***************************************************************************)
EXTENDS Integers

CONSTANTS
  MaxProcesses,  \* MAX_PROCESSES, the size of pcb[]
  Pages,         \* the physical pages the PMM can give to kernel stacks
  NoPage,        \* kstack_phys = 0
  Signals,       \* the signals that processes send one another
  WindowCalls    \* whether processes call poll() or block on the keyboard

SIGKILL == "KILL"
SIGTERM == "TERM"
SIGCHLD == "CHLD"

ASSUME ProcessAssumption ==
  /\ MaxProcesses \in Nat \ {0}
  /\ NoPage \notin Pages
  /\ Signals \subseteq {SIGKILL, SIGTERM, SIGCHLD}
  /\ WindowCalls \in BOOLEAN

\* No exit runs with interrupts on: SIGTERM is delivered at the end of a syscall,
\* and only the window calls leave interrupts on there.
NoTornExit == SIGTERM \notin Signals \/ WindowCalls = FALSE

Slot == 0 .. MaxProcesses - 1
Pid == Slot \ {0}
NULL == -1
ANY == -1        \* wait_target 0xFFFFFFFF: any child
State == {"CREATED", "READY", "RUNNING", "BLOCKED", "TERMINATED"}

\* Where the code of a context stands (what its kernel stack would resume).
Exiting == {"x_wake", "x_orphans", "x_space", "x_tail"}
Point == {"user", "window", "deliver", "wait"} \cup Exiting

VARIABLES
  state,         \* pcb[].state
  ppid,          \* pcb[].ppid
  wait_target,   \* pcb[].wait_target
  sig_pending,   \* pcb[].sig_pending, as a set
  kstack,        \* pcb[].kstack_phys
  page_dir,      \* the slots with as.page_dir # 0: those with a directory of their own
  next_ready,    \* pcb[].next_ready
  ready_head,
  ready_tail,
  current,
  cr3,           \* the slot that owns the loaded directory, 0 for the kernel's
  free_pages,    \* the pages the PMM holds free
  pc,            \* the point of every context
  sti,           \* contexts whose syscall has re-enabled interrupts
  victim,        \* the argument of the exit_process_code in progress
  cpu            \* the CPU runs the "context" current, or is in "schedule"_next()

pcbVars == <<state, ppid, wait_target, sig_pending, kstack, page_dir>>
queueVars == <<next_ready, ready_head, ready_tail>>
cpuVars == <<current, cr3, cpu>>
ctxVars == <<pc, sti, victim>>
vars == <<pcbVars, queueVars, cpuVars, ctxVars, free_pages>>

\* process_init(), and the probe running in slot 0 when interrupts are enabled.
Init ==
  /\ state = [p \in Slot |-> IF p = 0 THEN "RUNNING" ELSE "CREATED"]
  /\ ppid = [p \in Slot |-> 0]
  /\ wait_target = [p \in Slot |-> 0]
  /\ sig_pending = [p \in Slot |-> {}]
  /\ \E pg \in Pages :
       /\ kstack = [p \in Slot |-> IF p = 0 THEN pg ELSE NoPage]
       /\ free_pages = Pages \ {pg}
  /\ page_dir = {}
  /\ next_ready = [p \in Slot |-> NULL]
  /\ ready_head = NULL
  /\ ready_tail = NULL
  /\ current = 0
  /\ cr3 = 0
  /\ pc = [p \in Slot |-> "user"]
  /\ sti = {}
  /\ victim = NULL
  /\ cpu = "context"

-----------------------------------------------------------------------------
(* The ready queue and the slots.                                          *)

\* Mutant of ready_enqueue: the newcomer goes to the front.
ready_enqueue_Front(p) ==
  /\ next_ready' = [next_ready EXCEPT ![p] = ready_head]
  /\ ready_head' = p
  /\ ready_tail' = IF ready_tail = NULL THEN p ELSE ready_tail

\* ready_enqueue(p): p.next_ready is cleared first, then the tail points to p.
ready_enqueue(p) ==
  /\ next_ready' = [q \in Slot |-> IF q = ready_tail THEN p
                                   ELSE IF q = p THEN NULL
                                   ELSE next_ready[q]]
  /\ ready_head' = IF ready_tail = NULL THEN p ELSE ready_head
  /\ ready_tail' = p

\* Mutant of ready_pop: the tail is not reset when the queue runs empty.
ready_pop_StaleTail ==
  /\ ready_head' = next_ready[ready_head]
  /\ ready_tail' = ready_tail
  /\ next_ready' = [next_ready EXCEPT ![ready_head] = NULL]

\* The head is unlinked, as one turn of the loop of pick_next() does.
ready_pop ==
  /\ ready_head' = next_ready[ready_head]
  /\ ready_tail' = IF ready_tail = ready_head THEN NULL ELSE ready_tail
  /\ next_ready' = [next_ready EXCEPT ![ready_head] = NULL]

FreeSlots == {p \in Pid : state[p] = "CREATED" /\ kstack[p] = NoPage}

\* process_alloc_slot() returns the first free slot.
process_alloc_slot(s) == s \in FreeSlots /\ \A t \in FreeSlots : s <= t

Zeroed(f, S, zero) == [p \in Slot |-> IF p \in S THEN zero ELSE f[p]]

\* memset(&pcb[p], 0, ...) for the slots of S; ppid is left to the caller.
Memset(S) ==
  /\ state' = Zeroed(state, S, "CREATED")
  /\ wait_target' = Zeroed(wait_target, S, 0)
  /\ sig_pending' = Zeroed(sig_pending, S, {})
  /\ kstack' = Zeroed(kstack, S, NoPage)
  /\ page_dir' = page_dir \ S
  /\ next_ready' = Zeroed(next_ready, S, NULL)
  /\ UNCHANGED <<ready_head, ready_tail>>

\* Mutant of process_reap_slot: the stack page is forgotten.
process_reap_slot_Leak(S) ==
  /\ UNCHANGED free_pages
  /\ Memset(S)

\* process_reap_slot(): the stack page goes back to the PMM before the memset.
process_reap_slot(S) ==
  /\ free_pages' = free_pages \cup ({kstack[p] : p \in S} \ {NoPage})
  /\ Memset(S)

-----------------------------------------------------------------------------
(* Syscalls of the running context.                                        *)

\* The current context runs its own code, and this code is at point `at'.
AtPoint(at) == cpu = "context" /\ pc[current] = at

GoTo(at) == pc' = [pc EXCEPT ![current] = at]

\* A fresh PCB in slot s, READY and queued.
Spawn(s, pg, parent, private) ==
  /\ state' = [state EXCEPT ![s] = "READY"]
  /\ ppid' = [ppid EXCEPT ![s] = parent]
  /\ wait_target' = [wait_target EXCEPT ![s] = 0]
  /\ sig_pending' = [sig_pending EXCEPT ![s] = {}]
  /\ kstack' = [kstack EXCEPT ![s] = pg]
  /\ free_pages' = free_pages \ {pg}
  /\ page_dir' = IF private THEN page_dir \cup {s} ELSE page_dir \ {s}
  /\ pc' = [pc EXCEPT ![s] = "user", ![current] = "deliver"]
  /\ sti' = sti \ {s}
  /\ ready_enqueue(s)
  /\ UNCHANGED <<cpuVars, victim>>

\* sys_exec() ends in create_user_process(): no parent, the shared directory.
Exec ==
  /\ AtPoint("user")
  /\ \E s \in Pid, pg \in free_pages : process_alloc_slot(s) /\ Spawn(s, pg, 0, FALSE)

\* process_fork_user(); slot 0 may not fork.
Fork ==
  /\ AtPoint("user")
  /\ current # 0
  /\ \E s \in Pid, pg \in free_pages : process_alloc_slot(s) /\ Spawn(s, pg, current, TRUE)

\* A syscall that leaves the table alone: the calls of other subsystems, and
\* exec, fork, waitpid, kill or exit that fail (no slot, no page, no such pid).
PlainSyscall ==
  /\ AtPoint("user")
  /\ GoTo("deliver")
  /\ UNCHANGED <<pcbVars, queueVars, cpuVars, sti, victim, free_pages>>

\* poll() and the blocking keyboard read: interrupts stay on from the sti on.
EnterWindow ==
  /\ AtPoint("user")
  /\ WindowCalls
  /\ GoTo("window")
  /\ sti' = sti \cup {current}
  /\ UNCHANGED <<pcbVars, queueVars, cpuVars, victim, free_pages>>

LeaveWindow ==
  /\ AtPoint("window")
  /\ GoTo("deliver")
  /\ UNCHANGED <<pcbVars, queueVars, cpuVars, sti, victim, free_pages>>

-----------------------------------------------------------------------------
(* exit_process_code(v), in the steps between which an interrupt can fall  *)
(* when the caller has interrupts on.                                      *)

\* The state is set first; everything else follows.
ExitMark(v) ==
  /\ state' = [state EXCEPT ![v] = "TERMINATED"]
  /\ victim' = v
  /\ GoTo("x_wake")

\* Mutant of ExitWake: a parent that waits for any child is not matched.
ExitWake_NoAny ==
  LET b == ppid[victim]
      woken == b # 0 /\ state[b] = "BLOCKED" /\ wait_target[b] = victim
  IN /\ AtPoint("x_wake")
     /\ GoTo("x_orphans")
     /\ IF woken
          THEN state' = [state EXCEPT ![b] = "READY"] /\ ready_enqueue(b)
          ELSE UNCHANGED <<state, queueVars>>
     /\ UNCHANGED <<ppid, wait_target, sig_pending, kstack, page_dir, cpuVars, sti, victim,
                    free_pages>>

\* The waiting parent becomes READY, and a parent gets SIGCHLD.
ExitWake ==
  LET b == ppid[victim]
      woken == b # 0 /\ state[b] = "BLOCKED" /\ wait_target[b] \in {ANY, victim}
  IN /\ AtPoint("x_wake")
     /\ GoTo("x_orphans")
     /\ IF woken
          THEN state' = [state EXCEPT ![b] = "READY"] /\ ready_enqueue(b)
          ELSE UNCHANGED <<state, queueVars>>
     /\ sig_pending' = IF b # 0 /\ state[b] # "CREATED"
                         THEN [sig_pending EXCEPT ![b] = @ \cup {SIGCHLD}]
                         ELSE sig_pending
     /\ UNCHANGED <<ppid, wait_target, kstack, page_dir, cpuVars, sti, victim, free_pages>>

\* Mutant of ExitOrphans: living children keep their parent.
ExitOrphans_KeepParent ==
  LET zombies == {p \in Pid : state[p] = "TERMINATED" /\ ppid[p] = victim}
  IN /\ AtPoint("x_orphans")
     /\ GoTo("x_space")
     /\ process_reap_slot(zombies)
     /\ ppid' = Zeroed(ppid, zombies, 0)
     /\ UNCHANGED <<cpuVars, sti, victim>>

\* The children: zombies are reaped, the others become orphans.
ExitOrphans ==
  LET children == {p \in Pid : state[p] # "CREATED" /\ ppid[p] = victim}
  IN /\ AtPoint("x_orphans")
     /\ GoTo("x_space")
     /\ process_reap_slot({p \in children : state[p] = "TERMINATED"})
     /\ ppid' = Zeroed(ppid, children, 0)
     /\ UNCHANGED <<cpuVars, sti, victim>>

\* Mutant of ExitSpace: the directory is destroyed while it is loaded.
ExitSpace_Loaded ==
  /\ AtPoint("x_space")
  /\ GoTo("x_tail")
  /\ page_dir' = page_dir \ {victim}
  /\ UNCHANGED <<state, ppid, wait_target, sig_pending, kstack, queueVars, cpuVars, sti,
                 victim, free_pages>>

\* A private directory is destroyed, never while it is loaded.
ExitSpace ==
  /\ AtPoint("x_space")
  /\ GoTo("x_tail")
  /\ cr3' = IF victim \in page_dir /\ current = victim THEN 0 ELSE cr3
  /\ page_dir' = page_dir \ {victim}
  /\ UNCHANGED <<state, ppid, wait_target, sig_pending, kstack, queueVars, current,
                 cpu, sti, victim, free_pages>>

\* Mutant of ExitTail: a process that exits itself frees the stack it stands on.
ExitTail_OwnStack ==
  /\ AtPoint("x_tail")
  /\ victim' = NULL
  /\ free_pages' = free_pages \cup ({kstack[victim]} \ {NoPage})
  /\ kstack' = [kstack EXCEPT ![victim] = NoPage]
  /\ IF current = victim THEN cpu' = "schedule" /\ UNCHANGED pc
                         ELSE GoTo("deliver") /\ UNCHANGED cpu
  /\ UNCHANGED <<state, ppid, wait_target, sig_pending, page_dir, queueVars, current, cr3, sti>>

\* Mutant of OrphanSelfReap: a killed process is cleared under its parent.
OrphanSelfReap_AnyParent ==
  /\ current # victim
  /\ Memset({victim})
  /\ GoTo("deliver")
  /\ UNCHANGED <<ppid, free_pages, cpu>>

\* A killed orphan clears its own slot, its stack page unreturned.
OrphanSelfReap ==
  /\ current # victim /\ ppid[victim] = 0
  /\ Memset({victim})
  /\ GoTo("deliver")
  /\ UNCHANGED <<ppid, free_pages, cpu>>

\* Another killed process gives its stack back and stays a zombie.
KilledTail ==
  /\ current # victim /\ ppid[victim] # 0
  /\ free_pages' = free_pages \cup ({kstack[victim]} \ {NoPage})
  /\ kstack' = [kstack EXCEPT ![victim] = NoPage]
  /\ GoTo("deliver")
  /\ UNCHANGED <<state, ppid, wait_target, sig_pending, page_dir, queueVars, cpu>>

\* A process that exits itself is switched away from, for good.
OwnTail ==
  /\ current = victim
  /\ cpu' = "schedule"
  /\ UNCHANGED <<pcbVars, queueVars, pc, free_pages>>

ExitTail ==
  /\ AtPoint("x_tail")
  /\ OrphanSelfReap \/ KilledTail \/ OwnTail
  /\ victim' = NULL
  /\ UNCHANGED <<current, cr3, sti>>

\* sys_exit(); slot 0 may not exit.
Exit ==
  /\ AtPoint("user")
  /\ current # 0
  /\ ExitMark(current)
  /\ UNCHANGED <<ppid, wait_target, sig_pending, kstack, page_dir, queueVars, cpuVars,
                 sti, free_pages>>

\* process_kill(t, sig): SIGKILL ends a live target at once, the others pend.
Kill(t, sig) ==
  /\ AtPoint("user")
  /\ state[t] # "CREATED"
  /\ IF sig = SIGKILL
       THEN /\ state[t] # "TERMINATED"
            /\ ExitMark(t)
            /\ UNCHANGED sig_pending
       ELSE /\ sig_pending' = [sig_pending EXCEPT ![t] = @ \cup {sig}]
            /\ GoTo("deliver")
            /\ UNCHANGED <<state, victim>>
  /\ UNCHANGED <<ppid, wait_target, kstack, page_dir, queueVars, cpuVars, sti, free_pages>>

\* syscall_signal_deliver(), the last thing a syscall does.
Deliver ==
  /\ AtPoint("deliver")
  /\ IF current # 0 /\ SIGTERM \in sig_pending[current]
       THEN /\ sig_pending' = [sig_pending EXCEPT ![current] = @ \ {SIGTERM}]
            /\ ExitMark(current)
            /\ UNCHANGED sti
       ELSE /\ sig_pending' = IF current = 0 THEN sig_pending
                              ELSE [sig_pending EXCEPT ![current] = @ \ {SIGCHLD}]
            /\ GoTo("user")
            /\ sti' = sti \ {current}
            /\ UNCHANGED <<state, victim>>
  /\ UNCHANGED <<ppid, wait_target, kstack, page_dir, queueVars, cpuVars, free_pages>>

-----------------------------------------------------------------------------
(* waitpid().                                                              *)

\* process_wait_scan(target).
Children(target) ==
  {p \in Pid : state[p] # "CREATED" /\ ppid[p] = current /\ target \in {ANY, p}}

Zombies(target) == {p \in Children(target) : state[p] = "TERMINATED"}

\* One turn of the loop of sys_waitpid(): the first zombie is reaped, or there
\* is no child to wait for, or the caller blocks and gives up the CPU.
WaitReap(target) ==
  \E z \in Zombies(target) :
    /\ \A y \in Zombies(target) : z <= y
    /\ process_reap_slot({z})
    /\ ppid' = Zeroed(ppid, {z}, 0)
    /\ GoTo("deliver")
    /\ UNCHANGED <<cpuVars, sti, victim>>

WaitNoChild(target) ==
  /\ Children(target) = {}
  /\ GoTo("deliver")
  /\ UNCHANGED <<pcbVars, queueVars, cpuVars, sti, victim, free_pages>>

WaitBlock(target) ==
  /\ Children(target) # {} /\ Zombies(target) = {}
  /\ wait_target' = [wait_target EXCEPT ![current] = target]
  /\ state' = [state EXCEPT ![current] = IF @ = "RUNNING" THEN "BLOCKED" ELSE @]
  /\ cpu' = "schedule"
  /\ GoTo("wait")
  /\ UNCHANGED <<ppid, sig_pending, kstack, page_dir, queueVars, current, cr3, sti, victim,
                 free_pages>>

WaitTurn(target) == WaitReap(target) \/ WaitNoChild(target) \/ WaitBlock(target)

Waitpid(target) ==
  /\ AtPoint("user")
  /\ current # 0
  /\ WaitTurn(target)

\* Woken and dispatched again: the scan is repeated with the same target.
WaitResume ==
  /\ AtPoint("wait")
  /\ WaitTurn(wait_target[current])

-----------------------------------------------------------------------------
(* The timer and the scheduler.                                            *)

\* sched_preempt_tick() at the end of a quantum.  Interrupts are on in user
\* mode and after the sti of a syscall.
Tick ==
  /\ cpu = "context"
  /\ pc[current] = "user" \/ current \in sti
  /\ ready_head # NULL
  /\ cpu' = "schedule"
  /\ IF state[current] = "RUNNING"
       THEN state' = [state EXCEPT ![current] = "READY"] /\ ready_enqueue(current)
       ELSE UNCHANGED <<state, queueVars>>
  /\ UNCHANGED <<ppid, wait_target, sig_pending, kstack, page_dir, current, cr3, ctxVars,
                 free_pages>>

\* pick_next() passes over a queued process that is not READY; a TERMINATED
\* one gives its stack back here.
SchedSkip ==
  /\ cpu = "schedule"
  /\ ready_head # NULL /\ state[ready_head] # "READY"
  /\ ready_pop
  /\ IF state[ready_head] = "TERMINATED"
       THEN /\ free_pages' = free_pages \cup ({kstack[ready_head]} \ {NoPage})
            /\ kstack' = [kstack EXCEPT ![ready_head] = NoPage]
       ELSE UNCHANGED <<free_pages, kstack>>
  /\ UNCHANGED <<state, ppid, wait_target, sig_pending, page_dir, cpuVars, ctxVars>>

\* Mutant of SwitchTo: a process switched to itself is left READY.
SwitchTo_StaysReady(p) ==
  /\ current' = p
  /\ state' = [state EXCEPT ![p] = IF p # current THEN "RUNNING" ELSE @]
  /\ cr3' = IF p = current THEN cr3 ELSE IF p \in page_dir THEN p ELSE 0
  /\ cpu' = "context"
  /\ UNCHANGED <<ppid, wait_target, sig_pending, kstack, page_dir, ctxVars, free_pages>>

\* The switch to p: its directory is loaded, its stack becomes the stack.
SwitchTo(p) ==
  /\ current' = p
  /\ state' = [state EXCEPT ![p] = IF p # current \/ @ = "READY" THEN "RUNNING" ELSE @]
  /\ cr3' = IF p = current THEN cr3 ELSE IF p \in page_dir THEN p ELSE 0
  /\ cpu' = "context"
  /\ UNCHANGED <<ppid, wait_target, sig_pending, kstack, page_dir, ctxVars, free_pages>>

SchedRun ==
  /\ cpu = "schedule"
  /\ ready_head # NULL /\ state[ready_head] = "READY"
  /\ ready_pop
  /\ SwitchTo(ready_head)

\* An empty queue falls back to the kernel context.
SchedIdle ==
  /\ cpu = "schedule"
  /\ ready_head = NULL
  /\ SwitchTo(0)
  /\ UNCHANGED queueVars

-----------------------------------------------------------------------------
Kernel ==
  \/ ExitWake \/ ExitOrphans \/ ExitSpace \/ ExitTail
  \/ Deliver \/ WaitResume
  \/ SchedSkip \/ SchedRun \/ SchedIdle

User ==
  \/ Exec \/ Fork \/ PlainSyscall \/ EnterWindow \/ LeaveWindow \/ Exit
  \/ \E t \in Pid, sig \in Signals : Kill(t, sig)
  \/ \E target \in Pid \cup {ANY} : Waitpid(target)

Next == Kernel \/ User \/ Tick

Spec == Init /\ [][Next]_vars

(* Fairness: kernel code that is not waiting for an event goes on, and the *)
(* PIC latches IRQ0 until interrupts are on, so a timer tick that is       *)
(* possible again and again is taken.  User code owes nothing.             *)
Fairness == WF_vars(Kernel) /\ SF_vars(Tick)

FairSpec == Spec /\ Fairness

-----------------------------------------------------------------------------
(* Properties.                                                             *)

\* The fields of the PCBs, the queue pointers and the CPU state have the types
\* the C declarations give them.
TypeOK ==
  /\ state \in [Slot -> State]
  /\ ppid \in [Slot -> Slot]
  /\ wait_target \in [Slot -> Slot \cup {ANY}]
  /\ sig_pending \in [Slot -> SUBSET {SIGTERM, SIGCHLD}]
  /\ kstack \in [Slot -> Pages \cup {NoPage}]
  /\ page_dir \in SUBSET Slot
  /\ next_ready \in [Slot -> Slot \cup {NULL}]
  /\ ready_head \in Slot \cup {NULL}
  /\ ready_tail \in Slot \cup {NULL}
  /\ current \in Slot
  /\ cr3 \in Slot
  /\ free_pages \in SUBSET Pages
  /\ pc \in [Slot -> Point]
  /\ sti \in SUBSET Slot
  /\ victim \in Slot \cup {NULL}
  /\ cpu \in {"context", "schedule"}

\* schedule_next() and every path into it keep "current is RUNNING": outside the
\* scheduler the current context is the one RUNNING process, unless it is on its
\* way out of exit_process_code(); no other process is ever RUNNING.
CurrentRunning ==
  /\ \A p \in Slot : state[p] = "RUNNING" => p = current
  /\ cpu = "context" =>
       \/ state[current] = "RUNNING"
       \/ state[current] = "TERMINATED" /\ victim = current /\ pc[current] \in Exiting

\* PROC_READY means "waiting in the ready queue": following next_ready from
\* ready_head passes through every READY process once, through nothing else,
\* and ends at ready_tail.
QueueIs(n, q) ==
  /\ ready_head = IF n = 0 THEN NULL ELSE q[1]
  /\ ready_tail = IF n = 0 THEN NULL ELSE q[n]
  /\ \A i \in 1 .. n : next_ready[q[i]] = IF i = n THEN NULL ELSE q[i + 1]
  /\ \A i, j \in 1 .. n : q[i] = q[j] => i = j
  /\ \A p \in Slot : state[p] = "READY" <=> \E i \in 1 .. n : q[i] = p

ReadyQueue == \E n \in 0 .. MaxProcesses : \E q \in [1 .. n -> Slot] : QueueIs(n, q)

\* PROC_READY is "waiting in the ready queue", read without the rest of
\* ReadyQueue: every READY process is reached from ready_head.
ReadyInQueue ==
  \A p \in Slot : state[p] = "READY" =>
    \E n \in 1 .. MaxProcesses : \E q \in [1 .. n -> Slot] :
      /\ q[1] = ready_head /\ q[n] = p
      /\ \A i \in 1 .. n - 1 : next_ready[q[i]] = q[i + 1]

\* waitpid() and exit_process_code() never lose a wake-up: a BLOCKED process has
\* a living child it waits for, or that child is just being terminated and the
\* wake-up loop has not run yet.
WaiterHasChild ==
  \A p \in Slot : state[p] = "BLOCKED" =>
    \E c \in Pid : /\ ppid[c] = p
                   /\ wait_target[p] \in {ANY, c}
                   /\ \/ state[c] \in {"READY", "RUNNING", "BLOCKED"}
                      \/ state[c] = "TERMINATED" /\ victim = c /\ pc[current] = "x_wake"

\* The family is consistent: the parent of a process is alive, or is itself in
\* the part of exit_process_code() that comes before the orphan loop.  So a
\* zombie is never left to a parent that is gone.
ParentAlive ==
  \A c \in Pid : ppid[c] # 0 =>
    \/ state[ppid[c]] \in {"READY", "RUNNING", "BLOCKED"}
    \/ victim = ppid[c] /\ pc[current] \in {"x_wake", "x_orphans"}

\* A kernel stack has one owner and is never on the free list of the PMM, and
\* whoever runs or can be switched to has one.
StackOwned ==
  /\ \A p, q \in Slot : kstack[p] # NoPage /\ kstack[p] = kstack[q] => p = q
  /\ \A p \in Slot : kstack[p] \notin free_pages
  /\ \A p \in Slot : state[p] \in {"READY", "RUNNING", "BLOCKED"} => kstack[p] # NoPage
  /\ kstack[current] # NoPage

\* No page is lost: a stack page is free or some slot owns it.
NoStackLeak == Pages = free_pages \cup ({kstack[p] : p \in Slot} \ {NoPage})

\* The loaded page directory is that of the current process, and is never one
\* that exit_process_code() or process_reap_slot() has destroyed.
AddressSpace == cpu = "context" => cr3 = IF current \in page_dir THEN current ELSE 0

\* Until waitpid() or the death of the parent takes it, a zombie stays a zombie:
\* a terminated process never runs again, and its slot is reused only after
\* its parent has collected it or is exiting, or at the end of a kill of an orphan.
ZombieStep ==
  \A p \in Pid : state[p] = "TERMINATED" /\ state'[p] # "TERMINATED" =>
    /\ state'[p] = "CREATED"
    /\ \/ ppid[p] = current /\ pc[current] \in {"user", "wait"}
       \/ ppid[p] = victim /\ pc[current] = "x_orphans"
       \/ p = victim /\ ppid[p] = 0 /\ pc[current] = "x_tail"
ZombieKept == [][ZombieStep]_vars

\* Round robin starves nobody: whoever is READY is given the CPU.
NoStarvation == \A p \in Slot : state[p] = "READY" ~> state[p] = "RUNNING"

\* waitpid() returns: a BLOCKED parent of a zombie that it waits for runs again.
WaitReturns ==
  \A p \in Pid : \A c \in Pid :
    (state[p] = "BLOCKED" /\ ppid[c] = p /\ wait_target[p] \in {ANY, c}
       /\ state[c] = "TERMINATED") ~> (state[p] # "BLOCKED")

\* The comment of exit_process(): the stack of a process that exits itself is
\* released by the lazy reclamation of pick_next(), also when nobody waits for it.
ExitedStackFreed ==
  \A p \in Pid : (state[p] = "TERMINATED" /\ ppid[p] = 0) ~> (kstack[p] = NoPage)

=============================================================================
