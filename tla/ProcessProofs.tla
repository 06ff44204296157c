--------------------------- MODULE ProcessProofs ---------------------------
(***************************************************************************)
(* Proofs about Process, for any number of slots and pages: who runs, the  *)
(* zombies, the family with its address spaces, the ready queue and the    *)
(* kernel stacks.  Every theorem is about exits that are not cut off by a  *)
(* timer tick (NoTornExit): processes may send any signal or call poll(),  *)
(* but not both SIGTERM and poll().                                        *)
(***************************************************************************)
EXTENDS Process, FiniteSetTheorems, TLAPS

Alive == {"READY", "RUNNING", "BLOCKED"}

\* While schedule_next() looks for a process, nobody is RUNNING.
NobodyRuns == cpu = "schedule" => \A p \in Slot : state[p] # "RUNNING"

\* Slot 0 is never BLOCKED, TERMINATED or free, and never inside waitpid().
KernelContext == state[0] \in {"READY", "RUNNING"} /\ pc[0] # "wait"

\* The sti of a syscall is forgotten on the way back to user mode.
StiPoint == \A p \in Slot : pc[p] \in {"user", "wait"} => p \notin sti

\* A context inside exit_process_code() that is not the one terminated is the
\* caller of a kill: it is current and cannot be preempted.
ExitPoint ==
  \A p \in Slot : pc[p] \in Exiting /\ state[p] \in Alive =>
    p = current /\ cpu = "context" /\ p \notin sti

\* The victim of the exit in progress is terminated already.
VictimMarked ==
  cpu = "context" /\ pc[current] \in Exiting => victim \in Pid /\ state[victim] = "TERMINATED"

\* Nobody is its own parent.
NotOwnParent == \A p \in Pid : ppid[p] # p

CoreInv ==
  /\ TypeOK /\ CurrentRunning
  /\ NobodyRuns /\ KernelContext /\ StiPoint /\ ExitPoint /\ VictimMarked /\ NotOwnParent

-----------------------------------------------------------------------------
LEMMA SlotFacts == 0 \in Slot /\ Pid \subseteq Slot /\ NULL \notin Slot /\ 0 \notin Pid
  BY ProcessAssumption DEF Slot, Pid, NULL

\* ready_enqueue() keeps the types of the queue.
LEMMA EnqueueType ==
  ASSUME TypeOK, NEW p \in Slot, ready_enqueue(p)
  PROVE  /\ next_ready' \in [Slot -> Slot \cup {NULL}]
         /\ ready_head' \in Slot \cup {NULL}
         /\ ready_tail' \in Slot \cup {NULL}
  BY Zenon DEF TypeOK, ready_enqueue

\* pick_next() keeps the types of the queue.
LEMMA PopType ==
  ASSUME TypeOK, ready_head \in Slot, ready_pop
  PROVE  /\ next_ready' \in [Slot -> Slot \cup {NULL}]
         /\ ready_head' \in Slot \cup {NULL}
         /\ ready_tail' \in Slot \cup {NULL}
  BY Zenon DEF TypeOK, ready_pop

\* Clearing slots keeps the types of the PCB fields.
LEMMA MemsetType ==
  ASSUME TypeOK, NEW S, Memset(S)
  PROVE  /\ state' \in [Slot -> State]
         /\ wait_target' \in [Slot -> Slot \cup {ANY}]
         /\ sig_pending' \in [Slot -> SUBSET {SIGTERM, SIGCHLD}]
         /\ kstack' \in [Slot -> Pages \cup {NoPage}]
         /\ page_dir' \in SUBSET Slot
         /\ next_ready' \in [Slot -> Slot \cup {NULL}]
         /\ ready_head' \in Slot \cup {NULL}
         /\ ready_tail' \in Slot \cup {NULL}
         /\ \A p \in Slot : state'[p] = IF p \in S THEN "CREATED" ELSE state[p]
  BY SlotFacts, Zenon DEF TypeOK, Memset, Zeroed, State

LEMMA CoreInit == Init => CoreInv
  BY SlotFacts, ProcessAssumption
  DEF Init, CoreInv, TypeOK, CurrentRunning, NobodyRuns, KernelContext, StiPoint, ExitPoint,
      VictimMarked, NotOwnParent, State, Point, Exiting, Alive, ANY

-----------------------------------------------------------------------------
(* CoreInv is inductive, whatever signals are sent.                        *)

\* One turn of the loop of sys_waitpid() preserves CoreInv.
LEMMA CoreWait ==
  ASSUME CoreInv, cpu = "context", pc[current] \in {"user", "wait"}, current # 0,
         NEW target \in Slot \cup {ANY}, WaitTurn(target)
  PROVE  CoreInv'
  <1> USE SlotFacts DEF CoreInv, TypeOK, CurrentRunning, NobodyRuns, KernelContext, StiPoint,
          ExitPoint, VictimMarked, NotOwnParent, State, Point, Exiting, Alive, GoTo
  <1>1. state[current] = "RUNNING"
    BY Zenon
  <1>2. CASE WaitReap(target)
    BY <1>1, <1>2 DEF WaitReap, process_reap_slot, Memset, Zombies, Children, Zeroed, cpuVars, Pid
  <1>3. CASE WaitNoChild(target)
    BY <1>3, Zenon DEF WaitNoChild, pcbVars, queueVars, cpuVars
  <1>4. CASE WaitBlock(target)
    BY <1>1, <1>4 DEF WaitBlock, queueVars
  <1> QED
    BY <1>2, <1>3, <1>4, Zenon DEF WaitTurn

\* Setting TERMINATED and entering the exit steps preserves CoreInv.
LEMMA CoreMark ==
  ASSUME CoreInv, cpu = "context", pc[current] \in {"user", "deliver"},
         NEW v \in Pid, v = current \/ current \notin sti, state[v] \in Alive, ExitMark(v),
         sig_pending' \in [Slot -> SUBSET {SIGTERM, SIGCHLD}],
         UNCHANGED <<ppid, wait_target, kstack, page_dir, queueVars, cpuVars, sti, free_pages>>
  PROVE  CoreInv'
  <1> USE SlotFacts DEF CoreInv, ExitMark, GoTo, queueVars, cpuVars
  <1>1. v \in Slot /\ v # 0 /\ state[current] = "RUNNING"
    BY Zenon DEF Pid, CurrentRunning, Exiting
  <1>2. TypeOK'
    BY <1>1, Zenon DEF TypeOK, State, Point, Exiting
  <1>3. CurrentRunning'
    BY <1>1, Zenon DEF TypeOK, CurrentRunning, Exiting
  <1>4. KernelContext' /\ NobodyRuns'
    BY <1>1, Zenon DEF TypeOK, KernelContext, NobodyRuns
  <1>5. StiPoint'
    BY Zenon DEF TypeOK, StiPoint
  <1>6. ExitPoint'
    BY <1>1, Zenon DEF TypeOK, ExitPoint, Exiting, Alive
  <1>7. VictimMarked' /\ NotOwnParent'
    BY <1>1, Zenon DEF TypeOK, VictimMarked, NotOwnParent
  <1> QED
    BY <1>2, <1>3, <1>4, <1>5, <1>6, <1>7, Zenon

LEMMA CoreNext == CoreInv /\ [Next]_vars => CoreInv'
  <1> SUFFICES ASSUME CoreInv, [Next]_vars
               PROVE  CoreInv'
    BY Zenon
  <1> DEFINE Running == cpu = "context" /\ pc[current] \notin Exiting => state[current] = "RUNNING"
  <1>0. Running
    BY Zenon DEF CoreInv, CurrentRunning
  <1> USE SlotFacts DEF CoreInv, State, Point, Exiting, Alive, AtPoint, GoTo
  <1>1. CASE Exec
    BY <1>0, <1>1 DEF Exec, Spawn, process_alloc_slot, FreeSlots, ready_enqueue, cpuVars,
       TypeOK, CurrentRunning, NobodyRuns, KernelContext,
       StiPoint, ExitPoint, VictimMarked, NotOwnParent
  <1>2. CASE Fork
    BY <1>0, <1>2 DEF Fork, Spawn, process_alloc_slot, FreeSlots, ready_enqueue, cpuVars,
       TypeOK, CurrentRunning, NobodyRuns, KernelContext,
       StiPoint, ExitPoint, VictimMarked, NotOwnParent
  <1>3. CASE PlainSyscall
    BY <1>3, Zenon DEF PlainSyscall, pcbVars, queueVars, cpuVars, TypeOK, CurrentRunning, NobodyRuns, KernelContext,
       StiPoint, ExitPoint, VictimMarked, NotOwnParent
  <1>4. CASE EnterWindow
    BY <1>4 DEF EnterWindow, pcbVars, queueVars, cpuVars, TypeOK, CurrentRunning, NobodyRuns, KernelContext,
       StiPoint, ExitPoint, VictimMarked, NotOwnParent
  <1>5. CASE LeaveWindow
    BY <1>5, Zenon DEF LeaveWindow, pcbVars, queueVars, cpuVars, TypeOK, CurrentRunning, NobodyRuns, KernelContext,
       StiPoint, ExitPoint, VictimMarked, NotOwnParent
  <1>6. CASE Exit
    <2>1. current \in Pid /\ state[current] \in Alive
      BY <1>0, <1>6, Zenon DEF Exit, Pid, TypeOK
    <2> QED
      BY <1>6, <2>1, CoreMark, Zenon DEF Exit, TypeOK
  <1>7. ASSUME NEW t \in Pid, NEW sig \in Signals, Kill(t, sig)
        PROVE  CoreInv'
    <2>1. CASE sig = SIGKILL
      <3>1. state[t] \in Alive /\ current \notin sti
        BY <1>7, <2>1, Zenon DEF Kill, TypeOK, StiPoint
      <3> QED
        BY <1>7, <2>1, <3>1, CoreMark, Zenon DEF Kill, TypeOK
    <2>2. CASE sig # SIGKILL
      BY <1>7, <2>2, ProcessAssumption DEF Kill, queueVars, cpuVars, TypeOK, CurrentRunning, NobodyRuns, KernelContext,
       StiPoint, ExitPoint, VictimMarked, NotOwnParent
    <2> QED
      BY <2>1, <2>2, Zenon
  <1>8. CASE Deliver
    <2>1. CASE current # 0 /\ SIGTERM \in sig_pending[current]
      <3>1. current \in Pid /\ state[current] \in Alive
        BY <1>0, <1>8, <2>1, Zenon DEF Deliver, Pid, TypeOK
      <3> QED
        BY <1>8, <2>1, <3>1, CoreMark DEF Deliver, TypeOK
    <2>2. CASE ~(current # 0 /\ SIGTERM \in sig_pending[current])
      BY <1>8, <2>2 DEF Deliver, queueVars, cpuVars, TypeOK, CurrentRunning, NobodyRuns, KernelContext,
       StiPoint, ExitPoint, VictimMarked, NotOwnParent
    <2> QED
      BY <2>1, <2>2, Zenon
  <1>9. CASE ExitWake
    BY <1>9 DEF ExitWake, ready_enqueue, queueVars, cpuVars, TypeOK, CurrentRunning, NobodyRuns, KernelContext,
       StiPoint, ExitPoint, VictimMarked, NotOwnParent
  <1>10. CASE ExitOrphans
    BY <1>10 DEF ExitOrphans, process_reap_slot, Memset, Zeroed, cpuVars, TypeOK, CurrentRunning, NobodyRuns, KernelContext,
       StiPoint, ExitPoint, VictimMarked, NotOwnParent
  <1>11. CASE ExitSpace
    BY <1>11 DEF ExitSpace, queueVars, TypeOK, CurrentRunning, NobodyRuns, KernelContext,
       StiPoint, ExitPoint, VictimMarked, NotOwnParent
  <1>12. CASE ExitTail
    <2>1. CASE OrphanSelfReap
      BY <1>12, <2>1 DEF ExitTail, OrphanSelfReap, Memset, Zeroed, Pid, TypeOK, CurrentRunning, NobodyRuns, KernelContext,
       StiPoint, ExitPoint, VictimMarked, NotOwnParent
    <2>2. CASE KilledTail
      BY <1>12, <2>2 DEF ExitTail, KilledTail, queueVars, TypeOK, CurrentRunning, NobodyRuns, KernelContext,
       StiPoint, ExitPoint, VictimMarked, NotOwnParent
    <2>3. CASE OwnTail
      BY <1>12, <2>3, Zenon DEF ExitTail, OwnTail, pcbVars, queueVars, TypeOK, CurrentRunning, NobodyRuns, KernelContext,
       StiPoint, ExitPoint, VictimMarked, NotOwnParent
    <2> QED
      BY <1>12, <2>1, <2>2, <2>3, Zenon DEF ExitTail
  <1>13. ASSUME NEW target \in Pid \cup {ANY}, Waitpid(target)
         PROVE  CoreInv'
    BY <1>13, CoreWait, Zenon DEF Waitpid
  <1>14. CASE WaitResume
    <2>1. current # 0
      BY <1>14, Zenon DEF WaitResume, KernelContext
    <2> QED
      BY <1>14, <2>1, CoreWait, Zenon DEF WaitResume, TypeOK
  <1>15. CASE Tick
    BY <1>15 DEF Tick, ready_enqueue, queueVars, ctxVars, TypeOK, CurrentRunning, NobodyRuns, KernelContext,
       StiPoint, ExitPoint, VictimMarked, NotOwnParent
  <1>16. CASE SchedSkip
    BY <1>16 DEF SchedSkip, ready_pop, cpuVars, ctxVars, TypeOK, CurrentRunning, NobodyRuns, KernelContext,
       StiPoint, ExitPoint, VictimMarked, NotOwnParent
  <1>17. CASE SchedRun
    BY <1>17, Zenon DEF SchedRun, SwitchTo, ready_pop, ctxVars, TypeOK, CurrentRunning, NobodyRuns, KernelContext,
       StiPoint, ExitPoint, VictimMarked, NotOwnParent
  <1>18. CASE SchedIdle
    BY <1>18, Zenon DEF SchedIdle, SwitchTo, queueVars, ctxVars, TypeOK, CurrentRunning, NobodyRuns, KernelContext,
       StiPoint, ExitPoint, VictimMarked, NotOwnParent
  <1>19. CASE UNCHANGED vars
    BY <1>19 DEF vars, pcbVars, queueVars, cpuVars, ctxVars, TypeOK, CurrentRunning, NobodyRuns, KernelContext,
       StiPoint, ExitPoint, VictimMarked, NotOwnParent
  <1> QED
    BY Zenon, <1>1, <1>2, <1>3, <1>4, <1>5, <1>6, <1>7, <1>8, <1>9, <1>10, <1>11, <1>12, <1>13,
       <1>14, <1>15, <1>16, <1>17, <1>18, <1>19 DEF Next, Kernel, User

LEMMA CoreAlways == Spec => []CoreInv
  BY CoreInit, CoreNext, PTL DEF Spec

\* Whatever the processes do, the table, the queue and the CPU state of
\* kernel/process.c keep their types.
THEOREM TypeCorrect ==
  ASSUME NoTornExit
  PROVE  Spec => []TypeOK
  <1>1. CoreInv => TypeOK
    BY Zenon DEF CoreInv
  <1> QED
    BY CoreAlways, <1>1, PTL

\* "current is RUNNING" (the comment of schedule_next()) holds for every mix of
\* signals, also when SIGKILL has damaged the ready queue.
THEOREM CurrentAlwaysRuns ==
  ASSUME NoTornExit
  PROVE  Spec => []CurrentRunning
  <1>1. CoreInv => CurrentRunning
    BY Zenon DEF CoreInv
  <1> QED
    BY CoreAlways, <1>1, PTL

\* A zombie is kept until somebody who may take it does: its parent in waitpid(),
\* its parent's exit, or its own exit when it is an orphan that was killed; its
\* slot is then cleared (process_reap_slot() and the end of exit_process_code()).
THEOREM ZombiesKept ==
  ASSUME NoTornExit
  PROVE  Spec => ZombieKept
  <1>1. ASSUME CoreInv, Next PROVE ZombieStep
    <2> SUFFICES ASSUME NEW p \in Pid, state[p] = "TERMINATED", state'[p] # "TERMINATED"
                 PROVE  /\ state'[p] = "CREATED"
                        /\ \/ ppid[p] = current /\ pc[current] \in {"user", "wait"}
                           \/ ppid[p] = victim /\ pc[current] = "x_orphans"
                           \/ p = victim /\ ppid[p] = 0 /\ pc[current] = "x_tail"
      BY Zenon DEF ZombieStep
    <2> USE <1>1, SlotFacts DEF CoreInv, TypeOK, AtPoint
    <2>1. p \in Slot /\ p # 0
      BY Zenon
    <2>2. CASE Exec \/ Fork
      BY <2>1, <2>2 DEF Exec, Fork, Spawn, process_alloc_slot, FreeSlots
    <2>3. CASE PlainSyscall \/ EnterWindow \/ LeaveWindow \/ Exit \/ Deliver
      BY <2>1, <2>3, Zenon DEF PlainSyscall, EnterWindow, LeaveWindow, Exit, Deliver, ExitMark, pcbVars
    <2>4. ASSUME NEW t \in Pid, NEW sig \in Signals, Kill(t, sig) PROVE FALSE
      BY <2>1, <2>4, Zenon DEF Kill, ExitMark
    <2>5. CASE ExitWake
      BY <2>1, <2>5, Zenon DEF ExitWake
    <2>6. CASE ExitOrphans
      BY <2>1, <2>6, Zenon DEF ExitOrphans, process_reap_slot, Memset, Zeroed
    <2>7. CASE ExitSpace \/ Tick \/ SchedSkip
      BY <2>1, <2>7, Zenon DEF ExitSpace, Tick, SchedSkip
    <2>8. CASE ExitTail
      BY <2>1, <2>8 DEF ExitTail, OrphanSelfReap, KilledTail, OwnTail, Memset, Zeroed, pcbVars
    <2>9. ASSUME NEW target, pc[current] \in {"user", "wait"}, WaitTurn(target)
          PROVE  state'[p] = "CREATED" /\ ppid[p] = current
      BY <2>1, <2>9 DEF WaitTurn, WaitReap, WaitNoChild, WaitBlock, process_reap_slot, Memset,
         Zeroed, Zombies, Children, pcbVars
    <2>10. CASE SchedRun \/ SchedIdle
      BY <2>1, <2>10, Zenon DEF SchedRun, SchedIdle, SwitchTo
    <2> QED
      BY <2>2, <2>3, <2>4, <2>5, <2>6, <2>7, <2>8, <2>9, <2>10
      DEF Next, Kernel, User, Waitpid, WaitResume
  <1> QED
    BY CoreAlways, <1>1, PTL DEF Spec, ZombieKept

-----------------------------------------------------------------------------
(* Parents, waiting and address spaces.                                    *)

\* SIGTERM pends only where it is sent, sti comes only from the window calls, so
\* the exit in progress cannot be interrupted.
ExitAtomic ==
  /\ \A p \in Slot : SIGTERM \in sig_pending[p] => SIGTERM \in Signals
  /\ \A p \in Slot : p \in sti => WindowCalls = TRUE
  /\ \A p \in Slot : pc[p] \in Exiting => p \notin sti
  /\ cpu = "schedule" => pc[current] \notin {"x_wake", "x_orphans", "x_space"}

\* A free slot has no parent.
FreeHasNoParent == \A p \in Pid : state[p] = "CREATED" => ppid[p] = 0

FamilyInv == ExitAtomic /\ FreeHasNoParent /\ ParentAlive /\ WaiterHasChild

\* AddressSpace, while schedule_next() runs too.
LoadedDirectory == cr3 = IF current \in page_dir THEN current ELSE 0

-----------------------------------------------------------------------------
LEMMA ContextRuns ==
  CoreInv /\ cpu = "context" /\ pc[current] \notin Exiting => state[current] = "RUNNING"
  BY Zenon DEF CoreInv, CurrentRunning

LEMMA LoadedInit == Init => LoadedDirectory
  BY Zenon DEF Init, LoadedDirectory

LEMMA LoadedNext ==
  ASSUME CoreInv, LoadedDirectory, [Next]_vars
  PROVE  LoadedDirectory'
  <1> USE SlotFacts, ContextRuns DEF CoreInv, LoadedDirectory, AtPoint, Exiting
  <1>1. CASE Exec \/ Fork
    BY <1>1, Zenon DEF Exec, Fork, Spawn, process_alloc_slot, FreeSlots, cpuVars
  <1>2. CASE PlainSyscall \/ EnterWindow \/ LeaveWindow \/ Exit \/ Deliver
    BY <1>2, Zenon DEF PlainSyscall, EnterWindow, LeaveWindow, Exit, Deliver, pcbVars, cpuVars
  <1>3. ASSUME NEW t \in Pid, NEW sig \in Signals, Kill(t, sig)
        PROVE  LoadedDirectory'
    BY <1>3, Zenon DEF Kill, cpuVars
  <1>4. CASE ExitWake
    BY <1>4, Zenon DEF ExitWake, cpuVars
  <1>5. CASE ExitOrphans
    BY <1>5, Zenon DEF ExitOrphans, process_reap_slot, Memset, cpuVars, CurrentRunning, NotOwnParent
  <1>6. CASE ExitSpace
    BY <1>6, Zenon DEF ExitSpace
  <1>7. CASE ExitTail
    BY <1>7, Zenon DEF ExitTail, OrphanSelfReap, KilledTail, OwnTail, Memset, pcbVars
  <1>8. ASSUME NEW target, AtPoint("user") \/ AtPoint("wait"), WaitTurn(target)
        PROVE  LoadedDirectory'
    BY <1>8, Zenon DEF WaitTurn, WaitReap, WaitNoChild, WaitBlock, process_reap_slot, Memset, Zombies,
       pcbVars, cpuVars
  <1>9. CASE Tick \/ SchedSkip
    BY <1>9, Zenon DEF Tick, SchedSkip, cpuVars
  <1>10. CASE SchedRun \/ SchedIdle
    BY <1>10, Zenon DEF SchedRun, SchedIdle, SwitchTo
  <1>11. CASE UNCHANGED vars
    BY <1>11, Zenon DEF vars, pcbVars, cpuVars
  <1> QED
    BY Zenon, <1>1, <1>2, <1>3, <1>4, <1>5, <1>6, <1>7, <1>8, <1>9, <1>10, <1>11
    DEF Next, Kernel, User, Waitpid, WaitResume

\* Whoever runs, runs on its own page directory, never on a destroyed one:
\* exit_process_code() leaves the directory before it destroys it, and
\* schedule_next() loads the right one, for every mix of signals.
THEOREM AddressSpaceHolds ==
  ASSUME NoTornExit
  PROVE  Spec => []AddressSpace
  <1>1. CoreInv /\ LoadedDirectory => AddressSpace
    BY Zenon DEF LoadedDirectory, AddressSpace
  <1>2. CoreInv /\ LoadedDirectory /\ [Next]_vars => LoadedDirectory'
    BY LoadedNext, Zenon
  <1> QED
    BY CoreAlways, LoadedInit, <1>1, <1>2, PTL DEF Spec

-----------------------------------------------------------------------------
(* The family.                                                             *)

LEMMA FamilyInit == Init => FamilyInv
  BY Zenon, SlotFacts, ProcessAssumption
  DEF Init, FamilyInv, ExitAtomic, FreeHasNoParent, ParentAlive, WaiterHasChild, Exiting, Pid

\* Terminating v: its parent may still wait, its children still name it.
LEMMA FamilyMark ==
  ASSUME NoTornExit, CoreInv, FamilyInv, cpu = "context", pc[current] \in {"user", "deliver"},
         NEW v \in Pid, state[v] # "CREATED", current \notin sti, ExitMark(v),
         \A p \in Slot : SIGTERM \in sig_pending'[p] => SIGTERM \in Signals,
         UNCHANGED <<ppid, wait_target, cpuVars, sti>>
  PROVE  FamilyInv'
  <1> USE SlotFacts DEF CoreInv, TypeOK, FamilyInv, ExitMark, GoTo, cpuVars, Exiting
  <1>1. ExitAtomic'
    BY Zenon DEF ExitAtomic
  <1>2. FreeHasNoParent' /\ ParentAlive'
    BY Zenon DEF FreeHasNoParent, ParentAlive, Pid
  <1>3. WaiterHasChild'
    BY DEF WaiterHasChild, Pid
  <1> QED
    BY <1>1, <1>2, <1>3, Zenon

\* A new process has no parent, or the current process.
LEMMA FamilySpawn ==
  ASSUME CoreInv, FamilyInv, AtPoint("user"), NEW s \in Pid, state[s] = "CREATED",
         NEW pg, NEW parent \in {0, current}, NEW private, Spawn(s, pg, parent, private)
  PROVE  FamilyInv'
  <1>0. state[current] = "RUNNING" /\ s # current
    BY ContextRuns, Zenon DEF AtPoint, Exiting
  <1>1. s \in Slot /\ s # 0
    BY Zenon DEF Pid
  <1> USE <1>0, <1>1, SlotFacts DEF CoreInv, TypeOK, FamilyInv, AtPoint, Spawn, cpuVars, Exiting
  <1>2. ExitAtomic'
    BY Zenon DEF ExitAtomic
  <1>3. FreeHasNoParent' /\ ParentAlive'
    BY DEF FreeHasNoParent, ParentAlive, Pid
  <1>4. WaiterHasChild'
    BY DEF WaiterHasChild, Pid
  <1> QED
    BY <1>2, <1>3, <1>4, Zenon

LEMMA FamilyWait ==
  ASSUME CoreInv, FamilyInv, cpu = "context", pc[current] \in {"user", "wait"},
         NEW target \in Slot \cup {ANY}, WaitTurn(target)
  PROVE  FamilyInv'
  <1>0. state[current] = "RUNNING"
    BY ContextRuns, Zenon DEF Exiting
  <1> USE <1>0, SlotFacts DEF CoreInv, TypeOK, FamilyInv, ExitAtomic, FreeHasNoParent,
          ParentAlive, WaiterHasChild, GoTo, Exiting
  <1>1. CASE WaitReap(target)
    BY <1>1 DEF WaitReap, process_reap_slot, Memset, Zeroed, Zombies, Children, cpuVars, Pid
  <1>2. CASE WaitNoChild(target)
    BY <1>2 DEF WaitNoChild, pcbVars, cpuVars
  <1>3. CASE WaitBlock(target)
    BY <1>3 DEF WaitBlock, Children, Zombies, Pid, State
  <1> QED
    BY <1>1, <1>2, <1>3, Zenon DEF WaitTurn

LEMMA FamilyNext ==
  ASSUME NoTornExit, CoreInv, FamilyInv, [Next]_vars
  PROVE  FamilyInv'
  <1> USE SlotFacts, ContextRuns DEF CoreInv, TypeOK, FamilyInv, AtPoint, GoTo, Exiting
  <1>1. CASE Exec \/ Fork
    BY <1>1, FamilySpawn, Zenon DEF Exec, Fork, process_alloc_slot, FreeSlots
  <1>2. CASE PlainSyscall \/ EnterWindow \/ LeaveWindow
    BY <1>2, ProcessAssumption DEF PlainSyscall, EnterWindow, LeaveWindow, pcbVars, cpuVars, ExitAtomic, FreeHasNoParent,
       ParentAlive, WaiterHasChild
  <1>3. CASE Exit
    <2>1. current \in Pid /\ current \notin sti
      BY <1>3, Zenon DEF Exit, Pid, StiPoint
    <2> QED
      BY <1>3, <2>1, FamilyMark, Zenon DEF Exit, ExitAtomic
  <1>4. ASSUME NEW t \in Pid, NEW sig \in Signals, Kill(t, sig)
        PROVE  FamilyInv'
    <2>1. CASE sig = SIGKILL
      BY <1>4, <2>1, FamilyMark, Zenon DEF Kill, StiPoint, ExitAtomic
    <2>2. CASE sig # SIGKILL
      BY <1>4, <2>2 DEF Kill, cpuVars, Pid, ExitAtomic, FreeHasNoParent,
       ParentAlive, WaiterHasChild
    <2> QED
      BY <2>1, <2>2, Zenon
  <1>5. CASE Deliver
    <2>1. CASE current # 0 /\ SIGTERM \in sig_pending[current]
      <3>1. current \in Pid /\ current \notin sti
        BY <2>1, Zenon DEF Pid, ExitAtomic, NoTornExit
      <3>2. \A p \in Slot : SIGTERM \in sig_pending'[p] => SIGTERM \in Signals
        BY <1>5, <2>1, Zenon DEF Deliver, ExitAtomic
      <3> QED
        BY <1>5, <2>1, <3>1, <3>2, FamilyMark, Zenon DEF Deliver
    <2>2. CASE ~(current # 0 /\ SIGTERM \in sig_pending[current])
      BY <1>5, <2>2 DEF Deliver, cpuVars, ExitAtomic, FreeHasNoParent,
       ParentAlive, WaiterHasChild
    <2> QED
      BY <2>1, <2>2, Zenon
  <1>6. CASE ExitWake
    <2>1. victim \in Pid /\ state[victim] = "TERMINATED" /\ ppid[victim] \in Slot
      BY <1>6, Zenon DEF ExitWake, VictimMarked, Pid
    <2>2. ExitAtomic'
      BY <1>6, <2>1 DEF ExitWake, ExitAtomic, cpuVars, SIGTERM, SIGCHLD
    <2>3. FreeHasNoParent' /\ ParentAlive'
      BY <1>6, <2>1 DEF ExitWake, FreeHasNoParent, ParentAlive, cpuVars, Pid
    <2>4. WaiterHasChild'
      <3> SUFFICES ASSUME NEW p \in Slot, state'[p] = "BLOCKED"
                   PROVE  \E c \in Pid : /\ ppid[c] = p
                                         /\ wait_target[p] \in {ANY, c}
                                         /\ state'[c] \in Alive
        BY <1>6 DEF ExitWake, WaiterHasChild, Alive
      <3>1. state[p] = "BLOCKED" /\ \A c \in Slot : state[c] \in Alive => state'[c] \in Alive
        BY <1>6, <2>1, Zenon DEF ExitWake, Alive
      <3>2. PICK c \in Pid : /\ ppid[c] = p
                             /\ wait_target[p] \in {ANY, c}
                             /\ state[c] \in Alive \/ victim = c
        BY <3>1 DEF WaiterHasChild, Alive
      <3>3. c # victim
        BY <1>6, <2>1, <3>1, <3>2, Zenon DEF ExitWake, KernelContext
      <3> QED
        BY <3>1, <3>2, <3>3, Zenon
    <2> QED
      BY <2>2, <2>3, <2>4, Zenon
  <1>7. CASE ExitOrphans
    <2>1. victim \in Pid /\ state[victim] = "TERMINATED"
      BY <1>7, Zenon DEF ExitOrphans, VictimMarked
    <2> QED
      BY <1>7, <2>1 DEF ExitOrphans, process_reap_slot, Memset, Zeroed, cpuVars, Pid,
         NotOwnParent, ExitAtomic, FreeHasNoParent,
       ParentAlive, WaiterHasChild
  <1>8. CASE ExitSpace
    BY <1>8 DEF ExitSpace, ExitAtomic, FreeHasNoParent,
       ParentAlive, WaiterHasChild
  <1>9. CASE ExitTail
    <2>1. victim \in Pid /\ state[victim] = "TERMINATED"
      BY <1>9, Zenon DEF ExitTail, VictimMarked
    <2>2. CASE OrphanSelfReap
      BY <1>9, <2>1, <2>2 DEF ExitTail, OrphanSelfReap, Memset, Zeroed, Pid, ExitAtomic, FreeHasNoParent,
       ParentAlive, WaiterHasChild
    <2>3. CASE KilledTail
      BY <1>9, <2>3 DEF ExitTail, KilledTail, ExitAtomic, FreeHasNoParent,
       ParentAlive, WaiterHasChild
    <2>4. CASE OwnTail
      BY <1>9, <2>4 DEF ExitTail, OwnTail, pcbVars, ExitAtomic, FreeHasNoParent,
       ParentAlive, WaiterHasChild
    <2> QED
      BY <1>9, <2>2, <2>3, <2>4, Zenon DEF ExitTail
  <1>10. ASSUME NEW target \in Pid \cup {ANY}, Waitpid(target)
         PROVE  FamilyInv'
    BY <1>10, FamilyWait, Zenon DEF Waitpid, Pid
  <1>11. CASE WaitResume
    BY <1>11, FamilyWait, Zenon DEF WaitResume
  <1>12. CASE Tick
    BY <1>12 DEF Tick, ctxVars, ExitAtomic, FreeHasNoParent,
       ParentAlive, WaiterHasChild
  <1>13. CASE SchedSkip
    BY <1>13 DEF SchedSkip, cpuVars, ctxVars, ExitAtomic, FreeHasNoParent,
       ParentAlive, WaiterHasChild
  <1>14. CASE SchedRun
    BY <1>14 DEF SchedRun, SwitchTo, ctxVars, ExitPoint, Alive, ExitAtomic, FreeHasNoParent,
       ParentAlive, WaiterHasChild
  <1>15. CASE SchedIdle
    BY <1>15 DEF SchedIdle, SwitchTo, ctxVars, ExitPoint, Alive, KernelContext, ExitAtomic, FreeHasNoParent,
       ParentAlive, WaiterHasChild
  <1>16. CASE UNCHANGED vars
    BY <1>16 DEF vars, pcbVars, cpuVars, ctxVars, ExitAtomic, FreeHasNoParent,
       ParentAlive, WaiterHasChild
  <1> QED
    BY Zenon, <1>1, <1>2, <1>3, <1>4, <1>5, <1>6, <1>7, <1>8, <1>9, <1>10, <1>11, <1>12, <1>13,
       <1>14, <1>15, <1>16 DEF Next, Kernel, User

LEMMA FamilyAlways ==
  ASSUME NoTornExit
  PROVE  Spec => []FamilyInv
  <1>1. CoreInv /\ FamilyInv /\ [Next]_vars => FamilyInv'
    BY FamilyNext, Zenon
  <1> QED
    BY CoreAlways, FamilyInit, <1>1, PTL DEF Spec

\* waitpid() loses no wake-up: a parent is BLOCKED only while a child it waits
\* for is alive or is just being terminated before the wake-up loop of
\* exit_process_code(), as long as no exit runs with interrupts on.
THEOREM NoLostWakeup ==
  ASSUME NoTornExit
  PROVE  Spec => []WaiterHasChild
  BY FamilyAlways, PTL DEF FamilyInv

\* A process never names a dead parent, so no zombie waits for one: the orphan
\* loop of exit_process_code() has run before the parent is gone.
THEOREM ParentsAlive ==
  ASSUME NoTornExit
  PROVE  Spec => []ParentAlive
  BY FamilyAlways, PTL DEF FamilyInv

-----------------------------------------------------------------------------
(* The linked ready queue and the kernel stacks, as long as nobody sends   *)
(* SIGKILL: the queue is a FIFO of exactly the READY processes, and every  *)
(* stack has one owner.                                                    *)

\* ReadyQueue without the bound on its length, which follows.
Chain == \E n \in Nat : \E q \in [1 .. n -> Slot] : QueueIs(n, q)

QueueInv == CoreInv /\ Chain

-----------------------------------------------------------------------------
(* The pointer operations.                                                 *)

\* A queue without repetitions is no longer than the table.
LEMMA ChainBounded == CoreInv /\ Chain => ReadyQueue
  <1> SUFFICES ASSUME CoreInv, NEW n \in Nat, NEW q \in [1 .. n -> Slot], QueueIs(n, q)
               PROVE  n <= MaxProcesses
    BY ProcessAssumption DEF Chain, ReadyQueue
  <1>1. IsFiniteSet(1 .. n) /\ Cardinality(1 .. n) = n
    BY FS_Interval
  <1>2. IsFiniteSet(Slot) /\ Cardinality(Slot) = MaxProcesses
    BY FS_Interval, ProcessAssumption DEF Slot
  <1>3. ~(MaxProcesses < n)
    BY <1>1, <1>2, FS_PigeonHole DEF QueueIs
  <1> QED
    BY <1>3, ProcessAssumption

\* ready_enqueue(p) of a process that was not READY puts it at the end.
LEMMA ChainEnqueue ==
  ASSUME TypeOK, Chain, NEW p \in Slot, state[p] # "READY",
         state' = [state EXCEPT ![p] = "READY"], ready_enqueue(p)
  PROVE  Chain'
  <1>1. PICK n \in Nat : \E q \in [1 .. n -> Slot] : QueueIs(n, q)
    BY Zenon DEF Chain
  <1>2. PICK q \in [1 .. n -> Slot] : QueueIs(n, q)
    BY <1>1, Zenon
  <1> DEFINE r == [i \in 1 .. n + 1 |-> IF i = n + 1 THEN p ELSE q[i]]
  <1>3. r \in [1 .. n + 1 -> Slot] /\ n + 1 \in Nat
    OBVIOUS
  <1>4. \A i \in 1 .. n : q[i] # p /\ r[i] = q[i]
    BY <1>2 DEF QueueIs
  <1>5. r[n + 1] = p
    OBVIOUS
  <1> HIDE DEF r
  <1>6. /\ ready_head' = IF n + 1 = 0 THEN NULL ELSE r[1]
        /\ ready_tail' = IF n + 1 = 0 THEN NULL ELSE r[n + 1]
    BY <1>2, <1>4, <1>5, SlotFacts DEF QueueIs, ready_enqueue
  <1>7. \A i \in 1 .. n + 1 : next_ready'[r[i]] = IF i = n + 1 THEN NULL ELSE r[i + 1]
    BY <1>2, <1>3, <1>4, <1>5, SlotFacts DEF QueueIs, ready_enqueue
  <1>8. \A i, j \in 1 .. n + 1 : r[i] = r[j] => i = j
    BY <1>2, <1>4, <1>5 DEF QueueIs
  <1>9. \A s \in Slot : state'[s] = "READY" <=> \E i \in 1 .. n + 1 : r[i] = s
    <2> SUFFICES ASSUME NEW s \in Slot
                 PROVE  state'[s] = "READY" <=> \E i \in 1 .. n + 1 : r[i] = s
      BY Zenon
    <2>1. state'[s] = "READY" <=> s = p \/ \E i \in 1 .. n : q[i] = s
      BY <1>2, Zenon DEF QueueIs, TypeOK
    <2>2. \A i \in 1 .. n + 1 : i \in 1 .. n \/ i = n + 1
      OBVIOUS
    <2>3. n + 1 \in 1 .. n + 1 /\ \A i \in 1 .. n : i \in 1 .. n + 1
      OBVIOUS
    <2> QED
      BY <1>4, <1>5, <2>1, <2>2, <2>3, Zenon
  <1>10. QueueIs(n + 1, r)'
    BY <1>6, <1>7, <1>8, <1>9, Zenon DEF QueueIs
  <1> QED
    BY <1>3, <1>10, Zenon DEF Chain

\* pick_next() takes the first process, and it is READY.
LEMMA ChainPop ==
  ASSUME TypeOK, Chain, ready_head # NULL, ready_pop,
         state' = [state EXCEPT ![ready_head] = "RUNNING"]
  PROVE  Chain'
  <1>1. PICK n \in Nat : \E q \in [1 .. n -> Slot] : QueueIs(n, q)
    BY Zenon DEF Chain
  <1>2. PICK q \in [1 .. n -> Slot] : QueueIs(n, q)
    BY <1>1, Zenon
  <1>3. n # 0 /\ ready_head = q[1] /\ ready_head \in Slot /\ n - 1 \in Nat
    BY <1>2 DEF QueueIs
  <1> DEFINE r == [i \in 1 .. n - 1 |-> q[i + 1]]
  <1>4. r \in [1 .. n - 1 -> Slot]
    BY <1>3
  <1>5. \A i \in 1 .. n - 1 : r[i] = q[i + 1] /\ i + 1 \in 1 .. n /\ r[i] # ready_head
    BY <1>2, <1>3 DEF QueueIs
  <1> HIDE DEF r
  <1>6. /\ ready_head' = IF n - 1 = 0 THEN NULL ELSE r[1]
        /\ ready_tail' = IF n - 1 = 0 THEN NULL ELSE r[n - 1]
    BY <1>2, <1>3, <1>5 DEF QueueIs, ready_pop
  <1>7. \A i \in 1 .. n - 1 : next_ready'[r[i]] = IF i = n - 1 THEN NULL ELSE r[i + 1]
    BY <1>2, <1>3, <1>5 DEF QueueIs, ready_pop, TypeOK
  <1>8. \A i, j \in 1 .. n - 1 : r[i] = r[j] => i = j
    BY <1>2, <1>5 DEF QueueIs
  <1>9. \A s \in Slot : state'[s] = "READY" <=> \E i \in 1 .. n - 1 : r[i] = s
    <2> SUFFICES ASSUME NEW s \in Slot
                 PROVE  state'[s] = "READY" <=> \E i \in 1 .. n - 1 : r[i] = s
      BY Zenon
    <2>1. ASSUME NEW j \in 1 .. n, q[j] = s, s # ready_head
          PROVE  j - 1 \in 1 .. n - 1 /\ r[j - 1] = s
      BY <1>3, <1>5, <2>1
    <2> QED
      BY <1>2, <1>3, <1>5, <2>1 DEF QueueIs, TypeOK
  <1>10. QueueIs(n - 1, r)'
    BY <1>6, <1>7, <1>8, <1>9, Zenon DEF QueueIs
  <1> QED
    BY <1>3, <1>4, <1>10, Zenon DEF Chain

\* A step that touches no READY process and no pointer of one keeps the queue.
LEMMA ChainSame ==
  ASSUME TypeOK, Chain, UNCHANGED <<ready_head, ready_tail>>,
         \A s \in Slot : state'[s] = "READY" <=> state[s] = "READY",
         \A s \in Slot : state[s] = "READY" => next_ready'[s] = next_ready[s]
  PROVE  Chain'
  <1>1. PICK n \in Nat : \E q \in [1 .. n -> Slot] : QueueIs(n, q)
    BY Zenon DEF Chain
  <1>2. PICK q \in [1 .. n -> Slot] : QueueIs(n, q)
    BY <1>1, Zenon
  <1>3. \A i \in 1 .. n : state[q[i]] = "READY"
    BY <1>2, Zenon DEF QueueIs
  <1>4. QueueIs(n, q)'
    BY <1>2, <1>3, Zenon DEF QueueIs
  <1> QED
    BY <1>4, Zenon DEF Chain

-----------------------------------------------------------------------------
(* The queue is preserved by every step when no process sends SIGKILL.     *)

LEMMA QueueInit == Init => Chain
  <1> SUFFICES ASSUME Init
               PROVE  QueueIs(0, [i \in 1 .. 0 |-> 0])
    BY SlotFacts, Zenon DEF Chain
  <1> QED
    BY SlotFacts DEF Init, QueueIs

\* The head of the queue is READY, and while schedule_next() runs there is one:
\* the kernel context itself, when nobody else is left.
LEMMA HeadReady ==
  ASSUME QueueInv
  PROVE  /\ ready_head # NULL => ready_head \in Slot /\ state[ready_head] = "READY"
         /\ cpu = "schedule" => ready_head # NULL
  <1>1. PICK n \in Nat : \E q \in [1 .. n -> Slot] : QueueIs(n, q)
    BY Zenon DEF QueueInv, Chain
  <1>2. PICK q \in [1 .. n -> Slot] : QueueIs(n, q)
    BY <1>1, Zenon
  <1>3. ready_head # NULL => ready_head \in Slot /\ state[ready_head] = "READY"
    BY <1>2 DEF QueueIs
  <1>4. ASSUME cpu = "schedule" PROVE ready_head # NULL
    <2>1. state[0] = "READY"
      BY <1>4, SlotFacts, Zenon DEF QueueInv, CoreInv, NobodyRuns, KernelContext
    <2>2. PICK i \in 1 .. n : q[i] = 0
      BY <1>2, <2>1, SlotFacts, Zenon DEF QueueIs
    <2> QED
      BY <1>2, <2>2, SlotFacts DEF QueueIs
  <1> QED
    BY <1>3, <1>4, Zenon

\* Reaping zombies leaves the queue alone: a zombie is not linked.
LEMMA ChainReap ==
  ASSUME QueueInv, NEW S, \A p \in S : state[p] # "READY", Memset(S)
  PROVE  Chain'
  BY ChainSame, Zenon DEF QueueInv, CoreInv, TypeOK, Memset, Zeroed

LEMMA ChainWait ==
  ASSUME QueueInv, cpu = "context", pc[current] \notin Exiting, NEW target, WaitTurn(target)
  PROVE  Chain'
  <1> USE DEF QueueInv, CoreInv
  <1>1. CASE WaitReap(target)
    BY <1>1, ChainReap, Zenon DEF WaitReap, process_reap_slot, Zombies
  <1>2. CASE WaitNoChild(target)
    BY <1>2, ChainSame, Zenon DEF WaitNoChild, pcbVars, queueVars
  <1>3. CASE WaitBlock(target)
    BY <1>3, ChainSame, Zenon DEF WaitBlock, queueVars, TypeOK, CurrentRunning
  <1> QED
    BY <1>1, <1>2, <1>3, Zenon DEF WaitTurn

LEMMA QueueNext ==
  ASSUME SIGKILL \notin Signals, QueueInv, [Next]_vars
  PROVE  QueueInv'
  <1>0. CoreInv'
    BY CoreNext, Zenon DEF QueueInv
  <1> SUFFICES Chain'
    BY <1>0, Zenon DEF QueueInv
  <1>a. cpu = "context" /\ pc[current] \notin Exiting => state[current] = "RUNNING"
    BY Zenon DEF QueueInv, CoreInv, CurrentRunning
  <1> USE DEF QueueInv, CoreInv, AtPoint
  <1>1. CASE Exec
    BY <1>1, ChainEnqueue, Zenon DEF Exec, Spawn, process_alloc_slot, FreeSlots, Pid
  <1>2. CASE Fork
    BY <1>2, ChainEnqueue, Zenon DEF Fork, Spawn, process_alloc_slot, FreeSlots, Pid
  <1>3. CASE PlainSyscall \/ EnterWindow \/ LeaveWindow
    BY <1>3, ChainSame, Zenon DEF PlainSyscall, EnterWindow, LeaveWindow, pcbVars, queueVars
  <1>4. CASE Exit
    BY <1>a, <1>4, ChainSame, Zenon DEF Exit, ExitMark, queueVars, TypeOK, Exiting
  <1>5. ASSUME NEW t \in Pid, NEW sig \in Signals, Kill(t, sig)
        PROVE  Chain'
    BY <1>5, ChainSame, Zenon DEF Kill, queueVars
  <1>6. CASE Deliver
    <2>1. \A s \in Slot : state'[s] = "READY" <=> state[s] = "READY"
      BY <1>a, <1>6, Zenon DEF Deliver, ExitMark, TypeOK, Exiting
    <2> QED
      BY <1>6, <2>1, ChainSame, Zenon DEF Deliver, queueVars
  <1>7. CASE ExitWake
    <2> DEFINE b == ppid[victim]
    <2>1. b \in Slot
      BY <1>7, Zenon DEF ExitWake, VictimMarked, TypeOK, Exiting, Pid
    <2>2. CASE b # 0 /\ state[b] = "BLOCKED" /\ wait_target[b] \in {ANY, victim}
      BY <1>7, <2>1, <2>2, ChainEnqueue, Zenon DEF ExitWake
    <2>3. CASE ~(b # 0 /\ state[b] = "BLOCKED" /\ wait_target[b] \in {ANY, victim})
      BY <1>7, <2>3, ChainSame, Zenon DEF ExitWake, queueVars
    <2> QED
      BY <2>2, <2>3, Zenon
  <1>8. CASE ExitOrphans
    BY <1>8, ChainReap, Zenon DEF ExitOrphans, process_reap_slot
  <1>9. CASE ExitSpace
    BY <1>9, ChainSame, Zenon DEF ExitSpace, queueVars
  <1>10. CASE ExitTail
    <2>1. CASE OrphanSelfReap
      BY <1>10, <2>1, ChainReap, Zenon DEF ExitTail, OrphanSelfReap, VictimMarked, Exiting
    <2>2. CASE KilledTail \/ OwnTail
      BY <2>2, ChainSame, Zenon DEF KilledTail, OwnTail, pcbVars, queueVars
    <2> QED
      BY <1>10, <2>1, <2>2, Zenon DEF ExitTail
  <1>11. ASSUME NEW target \in Pid \cup {ANY}, Waitpid(target)
         PROVE  Chain'
    BY <1>11, ChainWait, Zenon DEF Waitpid, Exiting
  <1>12. CASE WaitResume
    BY <1>12, ChainWait, Zenon DEF WaitResume, Exiting
  <1>13. CASE Tick
    <2>1. CASE state[current] = "RUNNING"
      BY <1>13, <2>1, ChainEnqueue, Zenon DEF Tick, TypeOK
    <2>2. CASE state[current] # "RUNNING"
      BY <1>13, <2>2, ChainSame, Zenon DEF Tick, queueVars
    <2> QED
      BY <2>1, <2>2, Zenon
  <1>14. CASE SchedSkip
    BY <1>14, HeadReady, Zenon DEF SchedSkip
  <1>15. CASE SchedRun
    BY <1>15, ChainPop, Zenon DEF SchedRun, SwitchTo
  <1>16. CASE SchedIdle
    BY <1>16, HeadReady, Zenon DEF SchedIdle
  <1>17. CASE UNCHANGED vars
    BY <1>17, ChainSame, Zenon DEF vars, pcbVars, queueVars
  <1> QED
    BY <1>1, <1>2, <1>3, <1>4, <1>5, <1>6, <1>7, <1>8, <1>9, <1>10, <1>11, <1>12, <1>13,
       <1>14, <1>15, <1>16, <1>17 DEF Next, Kernel, User

\* PROC_READY means "waiting in the ready queue" for any number of processes
\* and pages, with SIGTERM or with poll(), as long as SIGKILL is not sent and no
\* exit runs with interrupts on, where pick_next() would pop the queue with
\* interrupts on too: the queue of kernel/process.c links every READY process
\* once and nothing else.
THEOREM ReadyQueueHolds ==
  ASSUME SIGKILL \notin Signals, NoTornExit
  PROVE  Spec => []ReadyQueue
  <1>1. Init => QueueInv
    BY CoreInit, QueueInit, Zenon DEF QueueInv
  <1>2. QueueInv /\ [Next]_vars => QueueInv'
    BY QueueNext, Zenon
  <1>3. QueueInv => ReadyQueue
    BY ChainBounded, Zenon DEF QueueInv
  <1> QED
    BY <1>1, <1>2, <1>3, PTL DEF Spec

-----------------------------------------------------------------------------
(* The kernel stacks.                                                      *)

\* Without SIGKILL a process is terminated by itself only.
OwnExit == cpu = "context" /\ pc[current] \in Exiting => victim = current

\* The slots in use are exactly those with a stack, and current is in use.
UsedHasStack ==
  /\ \A p \in Slot : state[p] # "CREATED" <=> kstack[p] # NoPage
  /\ state[current] # "CREATED"

\* A stack has one owner and is not free; every page is free or owned.
Ownership ==
  /\ \A p, q \in Slot : kstack[p] # NoPage /\ kstack[p] = kstack[q] => p = q
  /\ \A p \in Slot : kstack[p] \notin free_pages
  /\ \A pg \in Pages : pg \in free_pages \/ \E p \in Slot : kstack[p] = pg

StackInv == OwnExit /\ UsedHasStack /\ Ownership

-----------------------------------------------------------------------------
LEMMA StackInit == Init => StackInv
  BY SlotFacts, ProcessAssumption DEF Init, StackInv, OwnExit, UsedHasStack, Ownership, Exiting

\* A new process takes a free page.
LEMMA StackSpawn ==
  ASSUME CoreInv, StackInv, AtPoint("user"), NEW s \in Pid, state[s] = "CREATED",
         NEW pg \in free_pages, NEW parent, NEW private, Spawn(s, pg, parent, private)
  PROVE  StackInv'
  <1>1. s \in Slot /\ s # current /\ kstack[s] = NoPage /\ pg \in Pages /\ pg # NoPage
    BY ProcessAssumption, Zenon DEF Pid, CoreInv, TypeOK, StackInv, UsedHasStack
  <1> USE <1>1 DEF CoreInv, TypeOK, StackInv, Spawn, cpuVars
  <1>2. OwnExit'
    BY Zenon DEF OwnExit, Exiting
  <1>3. UsedHasStack'
    <2>1. /\ \A p \in Slot : state'[p] = IF p = s THEN "READY" ELSE state[p]
          /\ \A p \in Slot : kstack'[p] = IF p = s THEN pg ELSE kstack[p]
          /\ current' = current
      BY Zenon
    <2> QED
      BY <2>1, Zenon DEF UsedHasStack
  <1>4. Ownership'
    <2>1. /\ \A p \in Slot : kstack'[p] = IF p = s THEN pg ELSE kstack[p]
          /\ free_pages' = free_pages \ {pg}
      BY Zenon
    <2> QED
      BY <2>1, ProcessAssumption DEF Ownership
  <1> QED
    BY <1>2, <1>3, <1>4, Zenon

\* Reaping zombies other than current gives their pages back.
LEMMA StackReap ==
  ASSUME CoreInv, StackInv, NEW S \in SUBSET Slot, current \notin S,
         process_reap_slot(S), UNCHANGED current
  PROVE  UsedHasStack' /\ Ownership'
  <1> USE ProcessAssumption DEF CoreInv, TypeOK, StackInv, process_reap_slot, Memset, Zeroed
  <1>1. UsedHasStack'
    BY Zenon DEF UsedHasStack
  <1>2. Ownership'
    BY DEF Ownership
  <1> QED
    BY <1>1, <1>2, Zenon

LEMMA StackWait ==
  ASSUME CoreInv, StackInv, cpu = "context", pc[current] \in {"user", "wait"},
         NEW target, WaitTurn(target)
  PROVE  StackInv'
  <1>0. state[current] = "RUNNING"
    BY Zenon DEF CoreInv, CurrentRunning, Exiting
  <1>1. CASE WaitReap(target)
    <2>1. PICK z \in Zombies(target) : /\ process_reap_slot({z})
                                       /\ GoTo("deliver") /\ UNCHANGED <<cpuVars, sti, victim>>
      BY <1>1, Zenon DEF WaitReap
    <2>2. {z} \in SUBSET Slot /\ current \notin {z}
      BY <1>0, Zenon DEF Zombies, Children, Pid
    <2>3. OwnExit'
      BY <2>1, Zenon DEF GoTo, cpuVars, Exiting, OwnExit, CoreInv, TypeOK
    <2> QED
      BY <2>1, <2>2, <2>3, StackReap, Zenon DEF StackInv, cpuVars
  <1>2. CASE WaitNoChild(target)
    BY <1>2, Zenon DEF WaitNoChild, GoTo, pcbVars, cpuVars, CoreInv, TypeOK, StackInv, OwnExit,
       UsedHasStack, Ownership, Exiting
  <1>3. CASE WaitBlock(target)
    BY <1>3, Zenon DEF WaitBlock, GoTo, CoreInv, TypeOK, StackInv, OwnExit, UsedHasStack, Ownership
  <1> QED
    BY <1>1, <1>2, <1>3, Zenon DEF WaitTurn

LEMMA StackNext ==
  ASSUME SIGKILL \notin Signals, QueueInv, StackInv, [Next]_vars
  PROVE  StackInv'
  <1> USE SlotFacts DEF QueueInv, CoreInv, TypeOK, StackInv, AtPoint, GoTo, Exiting
  <1>1. CASE Exec \/ Fork
    BY <1>1, StackSpawn, Zenon DEF Exec, Fork, process_alloc_slot, FreeSlots
  <1>2. CASE PlainSyscall \/ EnterWindow \/ LeaveWindow
    BY <1>2 DEF PlainSyscall, EnterWindow, LeaveWindow, pcbVars, cpuVars, OwnExit,
       UsedHasStack, Ownership
  <1>3. CASE Exit \/ Deliver
    BY <1>3 DEF Exit, Deliver, ExitMark, cpuVars, OwnExit, UsedHasStack, Ownership
  <1>4. ASSUME NEW t \in Pid, NEW sig \in Signals, Kill(t, sig)
        PROVE  StackInv'
    BY <1>4 DEF Kill, cpuVars, OwnExit, UsedHasStack, Ownership
  <1>5. CASE ExitWake
    <2>1. ppid[victim] \in Slot
      BY <1>5, Zenon DEF ExitWake, VictimMarked, Pid
    <2> QED
      BY <1>5, <2>1 DEF ExitWake, cpuVars, OwnExit, UsedHasStack, Ownership
  <1>6. CASE ExitOrphans
    <2> DEFINE S == {p \in {c \in Pid : state[c] # "CREATED" /\ ppid[c] = victim} :
                       state[p] = "TERMINATED"}
    <2>1. S \in SUBSET Slot /\ current \notin S
      BY <1>6, Zenon DEF ExitOrphans, OwnExit, NotOwnParent, Pid
    <2>2. process_reap_slot(S) /\ UNCHANGED current
      BY <1>6, Zenon DEF ExitOrphans, cpuVars
    <2>3. OwnExit'
      BY <1>6, Zenon DEF ExitOrphans, cpuVars, OwnExit
    <2> QED
      BY <2>1, <2>2, <2>3, StackReap, Zenon
  <1>7. CASE ExitSpace
    BY <1>7, Zenon DEF ExitSpace, OwnExit, UsedHasStack, Ownership
  <1>8. CASE ExitTail
    BY <1>8, Zenon DEF ExitTail, OrphanSelfReap, KilledTail, OwnTail, pcbVars, OwnExit, UsedHasStack,
       Ownership
  <1>9. ASSUME NEW target \in Pid \cup {ANY}, Waitpid(target)
        PROVE  StackInv'
    BY <1>9, StackWait, Zenon DEF Waitpid
  <1>10. CASE WaitResume
    BY <1>10, StackWait, Zenon DEF WaitResume
  <1>11. CASE Tick
    BY <1>11 DEF Tick, ctxVars, OwnExit, UsedHasStack, Ownership
  <1>12. CASE SchedSkip \/ SchedIdle
    BY <1>12, HeadReady, Zenon DEF SchedSkip, SchedIdle
  <1>13. CASE SchedRun
    BY <1>13, Zenon DEF SchedRun, SwitchTo, ctxVars, ExitPoint, Alive, OwnExit, UsedHasStack, Ownership
  <1>14. CASE UNCHANGED vars
    BY <1>14, Zenon DEF vars, pcbVars, cpuVars, ctxVars, OwnExit, UsedHasStack, Ownership
  <1> QED
    BY <1>1, <1>2, <1>3, <1>4, <1>5, <1>6, <1>7, <1>8, <1>9, <1>10, <1>11, <1>12, <1>13,
       <1>14 DEF Next, Kernel, User

LEMMA StackAlways ==
  ASSUME SIGKILL \notin Signals
  PROVE  Spec => [](CoreInv /\ StackInv)
  <1>1. Init => QueueInv /\ StackInv
    BY CoreInit, QueueInit, StackInit, Zenon DEF QueueInv
  <1>2. QueueInv /\ StackInv /\ [Next]_vars => QueueInv' /\ StackInv'
    BY QueueNext, StackNext, Zenon
  <1>3. QueueInv => CoreInv
    BY Zenon DEF QueueInv
  <1> QED
    BY <1>1, <1>2, <1>3, PTL DEF Spec

\* Without SIGKILL and without exits that run with interrupts on, no kernel stack
\* is shared, none is in use and free at once, and whoever runs or may be
\* switched to stands on one (pick_next(), process_reap_slot()).
THEOREM StacksOwned ==
  ASSUME SIGKILL \notin Signals, NoTornExit
  PROVE  Spec => []StackOwned
  <1>1. CoreInv /\ StackInv => StackOwned
    BY Zenon DEF CoreInv, TypeOK, StackInv, UsedHasStack, Ownership, StackOwned
  <1> QED
    BY StackAlways, <1>1, PTL

\* Without SIGKILL and without exits that run with interrupts on, no stack page
\* is lost: exit, waitpid() and the orphan loop give every page back or leave it
\* with the zombie that owns it.
THEOREM NoStackLost ==
  ASSUME SIGKILL \notin Signals, NoTornExit
  PROVE  Spec => []NoStackLeak
  <1>1. ASSUME CoreInv, StackInv
        PROVE  NoStackLeak
    <2> DEFINE owned == {kstack[p] : p \in Slot} \ {NoPage}
    <2>1. free_pages \cup owned \subseteq Pages
      BY <1>1, Zenon DEF CoreInv, TypeOK
    <2>2. Pages \subseteq free_pages \cup owned
      BY <1>1, ProcessAssumption, Zenon DEF StackInv, Ownership
    <2> QED
      BY <2>1, <2>2, Zenon DEF NoStackLeak
  <1> QED
    BY StackAlways, <1>1, PTL

=============================================================================
