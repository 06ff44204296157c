# Cat-OS: specification, model checking and proofs

Cat-OS is a small kernel for one i686 CPU, with ring-3 processes, copy-on-write
`fork`, a VFS with FAT16 and a network stack.  This directory holds TLA+ modules
that model parts of it, TLC configurations for small instances, and proofs
checked by TLAPS.  Line numbers refer to the files under `src/`.

`PROJECT.json` lists the runs, the mutations that every checked property is
tested against, the source lines of every definition, the findings, the hazards
and the theorems.

## 1. Inventory

How the parts interact: ring 3 enters through `int 0x80` (an interrupt gate, so
with interrupts off) into `syscall_dispatch`, which calls processes, VFS and
sockets and then delivers signals.  The timer interrupt (100 Hz) runs
`net_poll` (driver, TCP, ARP and DHCP timers), then `stage4_autorun_tick`, and
after the EOI `sched_preempt_tick`.  Nothing is locked: the code relies on
interrupts being off.  The exceptions are the calls that execute `sti` to wait
(`poll`, the blocking keyboard read, `ping`, `resolve`), and these are where
concurrency is hard.

| Part | State | Operations | Hard behaviour | What makes it correct |
|---|---|---|---|---|
| Processes `kernel/process.c`, `syscall.c` | `pcb[32]`, ready queue linked through the PCBs, `current`, kernel stacks | exec, fork, exit, kill, waitpid, signal delivery, tick, `schedule_next` | a tick inside an exit; killing a queued or waiting process; slots reused; stack freed while in use | one RUNNING process; queue = READY processes; no lost wake-up; stacks owned once and released |
| Pages and address spaces `kernel/paging.c` | bitmap, 8-bit reference counts, directories, TLB | alloc/free, `map_page`, clone, destroy, COW fault | sharing by several spaces, running out of pages half-way, stale TLB | every space is private; counts match the users |
| ELF loader `kernel/elf.c` | none of its own | check headers, map and fill pages | failure half-way; programs share one directory | nothing outside the image is read; pages are zero-filled |
| Boot, autorun `kernel/kernel.c` | two flags and a pid | start sock_abi, then the shell | waits for a slot to reach a state | the shell starts |
| Interrupts `kernel/interrupts.c` | handler table, `ticks` | dispatch, EOI, preemption | switch before EOI | every IRQ is acknowledged |
| Descriptors `fs/vfs.c` | `fds[32]`, `fs[32]`, 8 FAT handles | open, close, dup2, lseek, sockets | aliases without a count | a descriptor keeps its file; handles are released once |
| FAT16, IDE `fs/fat16.c`, `drivers/ide.c` | 64-sector LRU cache, mount | lookup, read; command with retry | failed read into a cache slot, cyclic cluster chains | a cached sector is the disk's; a walk ends |
| TCP `net/net_tcp.c`, glue `net/net.c` | 64 TCBs, handles, send/receive buffers, reassembly slots, timers | segment handler, tick, send, recv, accept, close, bind | loss, duplication, reordering; TCB reuse under a handle; wrap of sequence numbers; close with unsent data | the stream arrives once and in order; a handle means one connection; timers make progress |
| ARP `net/net_arp.c` | 8 entries with ages | resolve, handle, tick | eviction and compaction while in use | answers are for the asked address |
| DHCP `net/net_dhcp.c` | lease state, deadlines, xid | handle, tick | late or lost answers around T1, T2, expiry | no address after expiry; BOUND has deadlines |
| UDP, ICMP, DNS `net/net_udp.c` ... | 8 sockets with queues; ping and query globals | send, receive, ping, resolve | shared globals while waiting with interrupts on | datagrams whole; the asker gets its own answer |
| e1000 `drivers/e1000.c` | RX/TX rings | poll, alloc, submit | re-entrance through the tick | a frame is handled once |
| Keyboard `drivers/keyboard.c` | scan-code state, ring | IRQ handler, getchar | full ring, prefixes | keys come out in order |
| libc, shell, nginx port, probe | user programs | | | outside the kernel |

The hazards, each at its line and with the property that covers it, are in
`PROJECT.json`.

## 2. Plan

Done: every module of section 3 is checked by TLC, and the safety properties of
every one are proved.  What is left to TLC alone is named at the end of section 5.

Worth doing next, most important first:

1. The re-entered poll (`e1000_reentry`) carried into the network modules: a
   handler interrupted by another one.  None of their properties is claimed there.
2. A composition of TcpSend and TcpReceive over one lossy channel, in place of
   the peer that each now brings along.
3. `sys_mmap2` and `brk` in Paging; this needs physical addresses in the model.
4. `arp_resolve` in the steps it has for callers with interrupts on, and the
   `ping_*` globals shared by two pingers.
5. Pure algorithms against reference definitions: the PMM's rotating search,
   `read_name` of DNS, TCP options, `user_access_ok`, the ELF bounds.

## 3. Modules

**Process** (`kernel/process.c`, `kernel/syscall.c`).  One variable per PCB field
(a function on slots), the queue pointers, `current`, the loaded directory and the
free stack pages.  `pc` says where each context would resume.  Actions:

| Action | Code |
|---|---|
| `Exec`, `Fork` | `create_user_process`, `process_fork_user` |
| `Kill`, `Deliver` | `process_kill`, the delivery point at the end of a syscall |
| `Exit`, `ExitWake`, `ExitOrphans`, `ExitSpace`, `ExitTail` | `exit_process_code`, cut where a tick makes a difference |
| `Waitpid`, `WaitResume` | `process_wait_scan`, `_block`, `_reap` |
| `EnterWindow`, `LeaveWindow` | the calls that wait with `sti;hlt` |
| `Tick` | `sched_preempt_tick` |
| `SchedSkip`, `SchedRun`, `SchedIdle` | `pick_next` and `schedule_next` |

Abstractions: pids are slots; exit codes and the length of the quantum are
dropped (a tick may preempt whenever interrupts are on and user code or a
`sti` window runs); `ready_enqueue` is one step; creation from the kernel
context, which has no caller, is left out.  An exit that SIGTERM causes at the end
of a call that waited runs with interrupts on (a *torn* exit): it is modelled up to
its last step, and a tick inside `pick_next` and `schedule_next` after it is not.  So
the properties of Process are claimed for runs without torn exits: SIGTERM is not
sent, or no call waits with interrupts on.

**Paging** (`kernel/paging.c`, `map_user_page` of `kernel/elf.c`).  The bitmap,
reference counts, the directory, tables and entries of each space, page contents,
`cr3` and the TLB.  Each function is one step since it runs with interrupts off.
`CloneDone` and `CloneFailed` are the two ways out of
`paging_clone_address_space`; `CowCopy` and `CowReuse` those of the COW fault.
The MMU (`Translate`, `Read`, `Write`) is external and modelled from how the code
uses it: a translation is cached at its first use and dropped by `invlpg` and by
loads of `cr3`.  Any free page may be handed out.  The content of a free page is
normalised, because a page is overwritten before it is used again.  User entries
are RW, or RO with the COW bit: the kernel creates no others.  A COW fault with
no page left halts the kernel and has no step.

**Memory** is the abstract specification: spaces with memories of their own, a
fork that copies, a write that changes one page of one space.  `PrivateMemory`
says that Paging implements it, with `mem[s][v]` the content of the page that
`v` leads to in `s`, and that a COW fault itself changes no memory.

**Descriptors** (`fs/vfs.c`, the socket descriptors of `kernel/syscall.c`).  `fds`
and `fs`, the FAT handles with their directory entries, and the sockets.
`sys_socket` either installs a descriptor or, when none is free, gives the socket
back.  `Dups` says which calls of `dup2` programs make.  **FileTable** is the abstract table in
which every descriptor has a file and a position of its own; `OwnFiles` says that
Descriptors implements it when no descriptor was duplicated.  **Vfs** holds the two
instances, without `dup2` (`Fds`) and with every use of it (`Dup`), and the mapping
to FileTable.

**FatFile** (`fs/fat16.c`).  `fat_sector` with its least-recently-used slots,
`fat_next`, and `fat16_read_file` with one action per loop head: skip a cluster,
enter one, copy a sector, go to the next.  A byte is named by its cluster and
offset.  Every disk read may fail.  **Volume** is the instance for any FAT and any
files whose reads do not cross the end of a cluster.

**Ide** (`drivers/ide.c`).  A transfer through a partition (`part_io`), cut into
commands (`dsk_io`) of single sectors (`rw_sector`) that may fail and be retried
once (`rw_error`), over a disk of numbered sectors.

**Keyboard** (`drivers/keyboard.c`, `kbdwait.c`).  Keys go down and up and put
scan codes on the wire; `kh` is the interrupt handler with its E0/E1 prefixes and
modifiers; readers test (`getchar`), wait, and take a byte in two steps.

**E1000** (`drivers/e1000.c`).  Both rings against a card that stores and sends.
The kernel's own sends are one step; those of `net_ping` and `net_dns_resolve`, which
run with interrupts on, are `slow_alloc`, `slow_write`, `slow_load`, `slow_publish`
and `slow_advance`, and a tick that sends may come between any two.  `crossed` says
that this has happened.  `PingSpec` adds a poll by `net_ping` with interrupts on, in
the three steps between which a tick can poll as well.

**Devices** puts Ide, Keyboard and E1000 side by side with constants of any value,
for MCServices to check and DeviceProofs to prove about.

**Udp** (`net/net_udp.c`, `net/net.c`, `net/net_dns.c`).  The socket table, the
queues and the slots that DNS resolutions borrow.  Several resolutions may be under
way; each reads in two steps (`dns_recvfrom_head`, `dns_recvfrom`), since it runs with
interrupts on.  `udp_handle` computes the unsigned lengths of the code, so a length
field below 8 wraps.  `broken` says that one of the two things that spoil a queue has
happened (4.2).  **Datagrams** is the instance for any number of slots and ports.

**TcpTable** (`net/net_tcp.c`, `net/net.c`).  TCBs, socket handles and descriptors:
bind, listen, SYN, handshake, accept, close, reset, timers, recycling.  A segment
is one action per case of `tcp_handle`; `tcp_handle_stray` is the reset from 0.0.0.0,
port 0, that matches a TCB without a peer.  A peer is one address and port.
`LAST_ACKED` is LAST_ACK after the peer repeated its FIN with the acknowledgement of
ours: the timer is off and the state stays.

**TcpReceive**.  In-sequence and out-of-order data, trimming, the reassembly
slots, the advertised window and reading, with `SeqBits`-wide sequence numbers.  The
peer cuts the stream `0, 1, 2, ...` into any segments and repeats them.  After the
FIN and its last acknowledgement the TCB is free (`CLOSED`), the handle still reads
from it, and a SYN may take it over (`REUSED`).  **Receiver** is the instance for
buffers, slots and streams of any size, far smaller than the range of sequence
numbers.

**TcpSend**.  `tcp_send`, `tcp_xmit_pending`, acknowledgements, fast
retransmission, both timers and the two FINs, again with wrapping numbers.
`Outcomes` says what can happen to a segment: delivered, lost, or refused by
the card.  The content of a segment is a sequence of positions in what was written.
**Sender** is the instance for buffers of any size and a connection without FINs.

**Arp** (`net/net_arp.c`).  Entries with ages instead of tick stamps (`Older` caps
them where the code no longer tells them apart), probes, the request throttle,
eviction, compaction.  `heard` and `asked` are history.  **Neighbours** is the
instance for any hosts, table and timeouts.

**Dhcp** (`net/net_dhcp.c`).  The state, the deadlines relative to a clock of
`Wrap` ticks and their signed comparison, the back-off, NAK and the static
address.  Time is in the deadlines: a tick lowers them.  `left`, the true rest of
the lease, is history.

**MCProcess**, **MCPaging** and **MCFatFile** add symmetry sets, values and, for
Paging, the two conjunctions that are checked.  **MCServices** and **MCProtocols**
put several instances side by side: the variable `part` names the one that a
behaviour runs, and the others stay as they began.  This is a way to check many
small models in one run, not a composition: the components named there share no
state.  Their properties are those of the components, joined where two speak of
the same thing.  MCServices extends TcpTable, Devices, Vfs, Volume, Sender, Receiver
and Datagrams, and MCProtocols extends Dhcp and Neighbours, so that TLC checks exactly
the definitions the theorems are about.  Every action of a component is taken in one
of its instances, though not in each: `dup2` only in `Dup`; the close of the kernel's
test service and stray resets only in the TCP table of MCServices, and repeated
retransmissions only in that of MCProtocols; a refused acknowledgement only in the
receiver of MCProtocols; FIN only in `Fin`.

**The poll is not re-entered.**  In the modules of the network stack (TcpTable,
TcpReceive, TcpSend, Udp, Arp, Dhcp, and E1000 without `PingSpec`) the handling of a
packet is one step.  `e1000.c:297` takes for granted that the poll is not re-entered;
`e1000_reentry` shows that a tick during `ping` or `resolve` re-enters it.  Every
network property and theorem below is about executions in which this does not
happen.

## 4. Runs

| Run | Instances | Checks |
|---|---|---|
| `process` | 4 slots and stacks, SIGTERM and SIGKILL; 7.2 million states up to symmetry | `CurrentRunning`, `WaiterHasChild`, `ParentAlive`, `AddressSpace`, `ZombieKept` |
| `process_live` | 3 slots and stacks, SIGCHLD, interrupts on in calls, fair; 81 000 states | `ReadyQueue`, `StackOwned`, `NoStackLeak`, `NoStarvation`, `WaitReturns` |
| `paging_cow` | 3 spaces, 7 pages, one page table with one page, 2 contents; 1 300 states up to symmetry | `ReferencesCounted`, `SharedReadOnly`, `PrivateMemory` |
| `services` | the eleven parts of MCServices; 280 000 states up to symmetry | descriptors: `OwnFiles`, `ResourcesHeld`; FAT16: `ReadsFile`; disk: `Transferred`; keyboard: `DeliveredOnce`, `NoStuckModifier`; card: `HandledOnce`, `SentAsWritten`; UDP: `OwnDatagrams`; TCP table: `ListenersKept`, `PendingHasListener`, `AcceptedHeld`, `BacklogKept`; receiver: `StreamIntact`, `WindowHonoured`; sender: `StreamSent`, `WindowRespected` |
| `protocols` | the seven parts of MCProtocols, fair; 44 000 states | TCP: `ConnectionsEnd`, `AllRead`, `Drains`, `FinEnds`; ARP: `AnswersHeard`, `SilentForgotten`; DHCP: `NotPastLease`, `DeadlinesOrdered`, `LeaseHonoured`, `FindsAddress` |

What these say, beyond their names: `ResourcesHeld` includes that `dup2` loses no
FAT handle; `ReadsFile` that the FAT cache answers for the right sector; `Transferred`
that a partition is not left; `HandledOnce` that a drained ring has room;
`OwnDatagrams` that ports are distinct and queues fit; `StreamIntact` that no byte is
cached twice and no end is reported early; `WindowHonoured` that a window is not
left closed; `StreamSent` and `FinEnds` that what is in flight has a timer;
`SilentForgotten` that only silent hosts are forgotten.

Some properties name the situation in which the code does not keep them, since that
can happen in the run: `SentAsWritten` a send inside another send (`crossed`);
`OwnDatagrams` a spoilt queue (`broken`); `ListenersKept` and `PendingHasListener` a
reset from 0.0.0.0, port 0; `AcceptedHeld` the `socket` call that overwrites a handle;
`ConnectionsEnd` the two states without a timer; `AllRead` a TCB that a new connection
takes over before its data are read.  Section 4.2 describes each.

Bounds.  With 4 slots there are the kernel context and three processes: a parent,
a child and a grandchild or a stranger, which is what orphaning, slot reuse and a
queue with a middle need.  Windows and liveness multiply the states, so
`process_live` has three slots (its three invariants are also proved, for any
number); the stacks are as many as the slots, so a lost one is missed at once.
Three spaces let a page be shared three ways.  Fully apart they would need eight
pages; with seven, one space can break away while the others still share, and
allocation also fails at every point.  In MCServices every table can fill up and
every ring can wrap: two descriptors for two files and two handles; three FAT
sectors for two cache slots, with chains that are out of order, end early or run
in a circle; transfers of up to two commands; a keyboard ring of four and three
keys; seven packets through four descriptors polled two at a time; two datagrams
to a buffer; two processes that send with interrupts on; two resolutions; three TCBs
for two ports, two clients, two `socket` calls and one stray reset.  The TCP instances,
`Fin` excepted, start their sequence numbers just before the wrap,
and write or receive more than a buffer.  The leases are missing, very short, with
the default T1 and T2, and with T1 and T2 in the wrong order; the tick counter wraps
several times.  Symmetry permutes pages, private spaces and TCP clients, which
nothing in the properties tells apart; the liveness runs use none.

Bounds that leave something out on purpose: errors of the disk strike at the first
sector of a command (`FailsAt`), reads of FAT files stay inside a cluster
(`Crossing`), one keyboard reader (`Readers`), programs that close after all was
acknowledged (`Closes`), no FIN number at the wrap (`Fin` starts at 0), no torn exits
(section 3), leases shorter than half the tick range.  Sections 4.1 and 4.2 say what happens beyond them.

Fairness.  Process: weak fairness of kernel steps, since kernel code that waits
for nothing goes on; strong fairness of the tick, since the PIC holds IRQ0 until
interrupts are on again; user code owes nothing.  Protocols: weak fairness of
`tcp_tick`, `arp_tick` and `dhcp_tick`, which every timer interrupt calls through
`net_poll`.  Beyond the kernel, `AllRead` assumes a peer that retransmits and a
program that reads, `Drains` and `FinEnds` a peer that acknowledges what it has
(every segment may still be lost, in which case the connection is given up), and
`SilentForgotten` a program that keeps sending to the silent host.  `AllRead` has acks
that the card refuses; `Drains` has neither refused frames nor closed windows, with
which it fails (4.2, `:411` and `:601`).  `FindsAddress` and `ConnectionsEnd` exclude a peer that
repeats NAKs or SYNs for ever.

Deadlock is checked except in the runs whose inputs are limited in number
(`services`, `protocols`, `kbd_readers`, `e1000_reentry`): they end when these are
used up.

### 4.1 Violations

These runs show where the code departs from its own documentation (details and
quotations in `PROJECT.json`, "findings"):

| Run | Property | What happens |
|---|---|---|
| `process_kill_queue` | `ReadyInQueue` | SIGKILL of a queued process clears a linked PCB; READY processes behind it leave the queue.  Later such a slot, reused, makes `pick_next` free a stack in use, and an orphan killed this way loses its stack |
| `process_exit_stack` | `ExitedStackFreed` | a process that exits itself and has no parent never gives its stack back |
| `process_torn_exit` | `WaiterHasChild` | a tick in an exit after `sti` leaves the parent BLOCKED |
| `paging_rollback` | `WritableIsPrivate` | the rollback of a failed clone makes pages RW that an earlier child still shares (two page tables, nine pages) |
| `fat_cross` | `ReadsFile` | a read across the end of a cluster gets the same cluster again |
| `kbd_readers` | `DeliveredOnce` | two readers take one byte, or the tail passes the head |
| `e1000_reentry` | `HandledOnce` | a tick polls inside the poll of a ping: one packet is handled twice |

The passing runs are chosen so that these do not occur in them: no property is
weakened, but the queue and the stacks are checked without SIGKILL, all of Process
without torn exits, `paging_cow` has one page table, so that a failed clone has nothing to roll back, and so on.

### 4.2 Divergences without a run

Met while modelling, reproduced with TLC on these modules or read off the code,
and kept out of the passing runs by the bounds above.

* `dup2` shares a `file_t` without a count (`vfs.c:275`): after close and open the
  surviving descriptor is an alias of the new file.  `lseek` can wrap a position
  (`vfs.c:257`).
* TCP table: `poll` counts half-open connections that `accept` does not return
  (`net_tcp.c:302`); a handle whose TCB was recycled acts on the new connection
  (`:473`); two calls of `socket` can return one TCB and overwrite the handle of an
  accepted connection (`net.c:174`); a peer is found by address and port without the
  local port (`:274`), so a reset from 0.0.0.0, port 0, finds a TCB without a peer and
  closes a listener (`:541`); reassembly slots of a previous connection survive in a
  reused TCB (`:497`; TcpReceive starts with empty ones).
* End of a connection: `docs/SOCKET_API.md:127` leaves the end of a closed connection
  to the kernel ("连接由内核状态机/RTO/TIME_WAIT 收尾"), but FIN_WAIT_2 (`:679`) and
  LAST_ACK after a repeated FIN that acknowledges ours (`:620`, `:684`) have no timer.
  Once LAST_ACK is acknowledged the TCB is free (`:686`): from then on `recv` of an
  empty buffer returns `EAGAIN` (`:825`), where before it was the end of file, and a
  new connection that takes the TCB discards what was not read.
* UDP: `plen-8` of a length field below 8 wraps (`net_udp.c:32`), the bound test passes
  and `n` no longer counts the entries; a datagram queued between the two halves of the
  `udp_recvfrom` of a resolution leaves `head`, `n` and the entries out of step (`:79`).
* e1000: a tick that sends between `e1000_tx_alloc` and `e1000_tx_submit` of a ping or
  a resolution gets the same buffer (`e1000.c:239`).
* ARP: `arp_resolve` copies an entry's MAC (`net_arp.c:93`) in a step of its own when
  its caller has interrupts on; in Arp it is one step.
* TCP sender: `close` and the answer to a FIN put our FIN in front of unsent data
  (`:844`, `:668`); a fast retransmission of a FIN sends a byte that was never
  written (`:591`); `snd_una >= snd_nxt` is not safe when the FIN takes the last
  number before the wrap (`:679`); the retransmission timer sends all in flight
  as one segment (`:773`); a transmission refused by the card with nothing in
  flight arms no timer (`:411`); an accepted window probe stalls the connection
  (`:601`, `:734`).
* IDE: a retry after an error in mid-command goes on in the buffer where the error
  struck (`ide.c:43`).  Keyboard: after Pause two codes too many are dropped
  (`keyboard.c:25`).  DHCP: a lease of half the tick range, about 248 days, or more
  counts as over at once.

## 5. Proofs

All theorems hold for every value of the constants that satisfies the condition.

| Module | Theorem | Condition |
|---|---|---|
| ProcessProofs | `TypeCorrect`, `CurrentAlwaysRuns`, `ZombiesKept`, `AddressSpaceHolds`, `NoLostWakeup`, `ParentsAlive` | `NoTornExit`: no SIGTERM, or no calls that enable interrupts |
| ProcessProofs | `ReadyQueueHolds`, `StacksOwned`, `NoStackLost` | `NoTornExit` and no SIGKILL |
| PagingProofs | `ReferencesCountedAlways` | none |
| PagingProofs | `SharedReadOnlyAlways`, `PrivateMemoryHolds` | no clone fails after it has cloned a table with RW pages (`~Rollback`) |
| DeviceProofs | `HandledOnceAlways`, `SentAsWrittenAlways` | an RX ring of at least two descriptors |
| DeviceProofs | `TransferredAlways` | a command that fails does so before its first sector |
| DeviceProofs | `DeliveredOnceAlways` | at most one reader |
| DeviceProofs | `NoStuckModifierAlways` | none |
| FileProofs | `DescriptorsOwn` | no `dup2` |
| FileProofs | `ResourcesHeldAlways` | none for the FAT handles that `dup2` leaves; no `dup2` for the rest |
| FileProofs | `FileReadTrue` | reads inside one cluster |
| TcpTableProofs | `ListenersStay`, `NoOrphanedConnection`, `BacklogHolds`, `AcceptedStaysHeld` | none |
| ReceiverProofs | `StreamReassembled`, `WindowKept` | every acknowledgement can be submitted; buffer and age of a segment far below half the range (`ReceiverAssumption`) |
| SenderProofs | `PeerGetsStream`, `SentInWindow` | no FIN; a buffer below half the range (`SenderAssumption`) |
| ProtocolProofs | `LeaseNeverOverrun`, `DeadlinesStayOrdered`, `LeaseKeptToItsEnd` | `ShortLeases`: every lease is shorter than half the range of the tick counter |
| ProtocolProofs | `AnswersAsHeard`, `OnlySilentDropped`, `DatagramsOwned` | none |

"None" is beside the assumptions on the constants, the situations that the properties
themselves name (section 4) and, from DeviceProofs' `HandledOnceAlways` to the last
row, for the network modules the poll that is not re-entered.  The conditions on
Process, Paging and Keyboard are the ones the violation runs show to be
needed, and so is that of FatFile; those of Descriptors, Ide and the sender are needed
because of the divergences in 4.2 (`vfs.c:275`, `ide.c:43`, `net_tcp.c:844`); that of
Dhcp is where the signed comparison of ticks stops being right.  The argument:

* `CoreInv` strengthens `TypeOK /\ CurrentRunning`: nobody but `current` is
  RUNNING, the kernel context is never killed, contexts stand at points that fit
  their state, and the victim of an exit in progress is marked.  Without the
  points, `CurrentRunning` says nothing about a context preempted in an exit.
* `QueueInv` adds `Chain`: some sequence without repetition lists the READY
  processes, is linked through `next_ready`, starts at `ready_head` and ends at
  `ready_tail`.  `ChainEnqueue` and `ChainPop` do the pointer work once; a
  pigeon-hole argument bounds the length.
* `StackInv` says that slots in use and stacks correspond one to one and that
  every page is free or owned; it needs the queue only for `pick_next` to meet
  no dead process.
* `FamilyInv` adds to the two family properties that an exit in progress cannot
  be interrupted (`ExitAtomic`), which is what a `sti` window breaks.
* `RefInv` (PagingProofs) strengthens `CountedReferences`: a space maps a page once,
  directories and tables are pages of their own with one reference, and a mapped
  page is counted once for each of its sharers and at most once more (the
  reference that stays behind when the kernel space maps another page in its
  place).  Without the upper bound the reuse of a page with count one in the COW
  fault could not be shown safe.  `CowInv` adds that an RW page has one sharer and that the TLB agrees
  with the tables; under it every step of Paging is a step of Memory or changes
  no memory.
* `RxInv` and `TxInv` (DeviceProofs) say where each packet and frame is: the
  descriptors between the two ends of a ring hold, in order and modulo its size,
  exactly what was received and not yet handled, or submitted and not yet sent.
  `TxInv` also says where an interrupted sender stands: until a send is crossed, at
  most one is under way, and its buffer is the one at `tx_next`.  `DiskInv` says what a
  transfer has moved so far.  `KeyRingInv` equates the accepted bytes with those
  delivered followed by those in the ring.  `ModifierInv` relates the keys held, the
  codes on the wire, the prefix state and the modifiers: a modifier is set only while
  a key of it is down or its break code is on its way.
* `FdInv` (FileProofs) says that descriptor `fd` has the element `fs[fd]` to itself
  and that handles and sockets in use are held by one open file each; under it every
  call is a step of FileTable or, like `fcntl`, changes nothing a program sees.
  With `dup2` neither holds.  What is left is `DupInv`: a handle in use is held by an
  element of `fs[]` whose own descriptor still points to it.  Files are
  assumed no larger than a position can tell, and a null pointer is no file.
* `FatInv` (FileProofs) says that a valid cache slot holds the sector of its number,
  that no sector has two, and that a read in progress has reached the cluster that its
  position belongs to and copied exactly the bytes before it.
* `TableInv` (TcpTableProofs) says that an unbound or listening handle has the
  TCB of its own number (`OwnTcb`), that a port has one listener, that only a connection has
  a peer (`PeerOfConnection`), so that no segment of a peer reaches a listener's TCB, and
  that a half-open connection has not been accepted (`HalfOpenWaits`), so that closing
  a stale handle makes nothing wait again.  `BacklogHolds` counts what waits before and
  after a step, action by action.
* `RxInv` (ReceiverProofs) says that the buffer holds the bytes from `read` on, that
  `rcv_nxt` is their end modulo the range, and that every slot holds a piece of the
  stream near the window, apart from all others, with `ooo_bytes` their sum.  The
  window and the buffer together never exceed the buffer's size, and after the end
  (`Ended`) all was received.  That pieces are near the window is what makes the signed
  comparison of wrapped numbers agree with positions in the stream.
* `SendInv` (SenderProofs) says the same of the sender: `sndb` starts at `snd_una`,
  what the peer has is a prefix of what was written and reaches at least `snd_una`,
  and a timer runs while anything is in flight.  It is preserved by each of the steps
  that an acknowledgement or a timer makes, so their order does not matter.
* `ArpInv` (ProtocolProofs) says that an address has one entry, with the MAC heard
  last, and that no entry counts more probes than were sent since.  `UdpInv` says that
  ports are distinct and that, until a queue is spoilt, `n` is the sum of its entries.
* `LeaseInv` (ProtocolProofs) ties the deadlines to `left`: in BOUND, RENEWING and
  REBINDING with a timed lease the expiry is `left` ticks away (`LeaseTracked`),
  otherwise no address is leased, or one without an end (`NoLease`), and T1 is still
  ahead in BOUND.
  The deadlines are in order for whatever T1 and T2 the server sent; with
  `ShortLeases`, "due" then means exactly that the difference has reached zero.

Lemmas on `%` come first in the three modules whose state wraps.

Only model-checked: everything under fairness (`NoStarvation`, `WaitReturns`,
`ConnectionsEnd`, `AllRead`, `Drains`, `FinEnds`, `FindsAddress` and the second half of
`SilentForgotten`), which the prover does not reach; acknowledgements the card
refuses; and the sender with FINs.

## 6. Not modelled

Straight-line code without state that several actors share: the boot sequence and
autorun, ELF header checks, the ring-3 probe (a code generator), register-level
I/O (PCI, RTC, PIC, e1000 set-up), the assembly entry code, packet layout and
checksums, `net/netring.c`, the C library and the shell.  Of the modelled parts:
SACK and the measurement of round trips in TCP, DNS names, the directory walk of
FAT16, the device tree of the VFS, `poll`, `mmap2`.

Most of the lines under `src/` are not Cat-OS: the sources of nginx, and
programs as arrays of bytes in headers.  They run on the kernel and are out of scope, so the modelled share of all lines is small; the
share to look at is that of `kernel/`, `fs/`, `net/` and `drivers/`.
