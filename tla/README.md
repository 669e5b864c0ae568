# Gaia: specifications of the kernel

TLA+ specifications of the Gaia kernel (`src/kernel`), model-checked with TLC and
proved with TLAPS. Each module models one part of the kernel and keeps the names of
its functions; `PROJECT.json` gives the source lines of every definition.

## The system

Gaia is an x86-64 kernel. One processor, the BSP, runs every task. Kernel code is
never preempted there: a task gives up the CPU only where it yields, blocks or
sleeps, while a task in ring 3 is preempted by the timer. The other processors run
jobs from a work queue and nothing else. Exclusion in the kernel is therefore
"interrupts off on the BSP", and the specifications take the same grain: **one
step is one stretch of kernel code from one parking point to the next**, with
interrupts arriving between steps. A few modules are finer: in `SmpWork`, where
processors do run at once, a step is an access to shared memory; in `NicPoll` the
card and its interrupt come between the frames of one pass; in `Futex` threads are
preempted between instructions; in `Ext2` and `Fat` the power may go between two
writes to the device. What is left open is everything the kernel
does not decide: which runnable task goes next, when a signal, a kill, a timer tick,
a frame or a disk completion comes, whether memory runs out, and what a program asks
for.

### Inventory

| Part | State | Operations | What is hard about it |
| --- | --- | --- | --- |
| ready queues (`sched/sched.c`) | three lists, `high_streak`, `low_starve` | push, pop, remove, change level | starvation bounds of two interacting counters |
| scheduler (`sched/sched.c`, `devices/pit.c`) | `current`, task states, wake ticks, deadlines, `need_resched`, two counters | block, timed block, sleep, wake, interrupt, yield, preempt, idle, exit, kill | a wake, a signal and a deadline ending one wait; idle looking and then halting |
| task lifecycle (`sched/sched.c`, `arch/syscall.c`) | task table, exit records, claims | spawn, exit, kill, wait4, thread create, exit, join, reap | three parties wanting one zombie, reaping that sleeps, a full table |
| program loading (`loader/process.c`) | request list, active request, cancel flag | exec, asynchronous spawn, loader, cancel | cancellation at every stage of a load |
| wait queues (`sync/waitqueue.c`) | entries on the waiters' stacks | add, remove, wait, wake all | lost wake-ups, entries of a killed task |
| pipes (`msg/pipe.c`) | ring, end counts, two queues | create, ref, unref, read, write, poll | atomic small writes, wrap, freeing under a waiter |
| input and IPC rings (`msg/msg.c`) | per-task rings, input owner | post, get, peek, send, receive | overflow, owner that exits |
| signals (`sched/signal.c`) | pending and blocked masks, dispositions | send, deliver, sigreturn, masks | signals to parked, loading and gate-holding tasks |
| SMP work (`sched/smp.c`, `display/framebuffer.c`) | ring, spinlock, online count, batch on a stack | submit, pop, IPI, copy a lane | job queued between the empty check and `hlt`; a batch that must outlive its jobs |
| filesystem gate (`fs/vfs/lock.c`) | owner, FIFO of waiters, `vfs_active` | lock, unlock | handoff, stray wake-ups, kills |
| VFS (`fs/vfs`) | mounts, inode references, open files | mount, unmount, open, close, read, write | failed mounts, references across unmount |
| FAT, ext2 (`fs/fat`, `fs/ext2`) | cached volume, chains, bitmaps | create, write, truncate, unlink, sync | order of the sectors written |
| address spaces (`memory/uvm.c`, `loader/process.c`) | VMAs, arena, holes, PML4 references | mmap, munmap, mprotect, fault, vfork, exec | sharing between threads, vfork children and frames shared out |
| frames, heap (`memory/pmm.c`, `heap.c`) | bitmap, hint, counters | alloc, free, contiguous runs | hint wrap, exact counts |
| futexes, shared memory (`arch/syscall.c`) | keys by frame, shared-out count | wait, wake, share, unshare | compare and park, partial failure |
| sockets and ARP (`net`) | socket list, receive queues, cache, pending frames | create, bind, receive, close, deliver, resolve, tick | delivery against close, entry reuse against flush |
| driver poll task, e1000 ring (`drivers/driver.c`, `network/eth/e1000`) | `poll_kicked`, descriptors, head and tail | kick, pass, receive, park | kick during a pass; a ring that fills |
| drivers, display, input, boot, utilities | device registers, pixels, text | | sequential or hardware |

The parts meet in a few places. Everything that sleeps goes through the scheduler's
block and wake. Exit and kill (`mark_task_exited`) touch almost everything: they
unlink wait-queue entries, drop descriptors and so pipe ends, release a claimed
child, wake joiners, wait4 callers and a vfork parent. A kill is refused while a
task is inside the filesystem gate, and becomes a cancellation while it is loading.
Reaping closes files, so it may itself sleep in the gate.

### What it means to be correct

- no wake-up, job, frame or signal is lost, and nobody stays parked when what it
  waits for is there;
- a ready task runs, a sleeper wakes, and no priority level starves;
- the counters and lists that stand for task states, references and frames agree
  with them;
- an exit code is delivered exactly once or accounted for; slots come back;
- a cancelled load never runs; every load ends;
- a pipe is a bounded byte queue, its counts are its descriptors, small writes are
  whole;
- one filesystem operation at a time, first come, first served; each leaves a
  consistent volume, in memory and after a power cut as far as the format says so;
- a page, a frame and an address space have one owner until the last user is gone,
  and none after;
- a mutex excludes, a handler is not entered twice unless asked for, a parked task
  has no deliverable signal.

## Modules

| Module | Models | Kind |
| --- | --- | --- |
| `FifoLock` | what the gate promises | abstract |
| `VfsGate` | `fs/vfs/lock.c` with task_block, task_wakeup, task_kill | implements `FifoLock` |
| `Vfs` | mounts, lookups, inode references and open files (`fs/vfs`) | component |
| `Ext2` | ext2 volume in memory, dirty blocks, `ext2_sync`, the device (`fs/ext2`) | component |
| `Fat` | FAT volume, its write-through and the device (`fs/fat`) | component |
| `ReadyQueue` | ready lists and the choice of `ready_pop`, as operators | shared |
| `Dispatch` | `ReadyQueue` under any sequence of operations, counting passes | component |
| `Sched` | the scheduler on top of `ReadyQueue` | composition |
| `TaskLife` | task table, loader, exit records, reapers, threads | component |
| `AddressSpace` | who owns a PML4: references, VM records, vfork, exec, reaper, shared frames | component |
| `Uvm` | `memory/uvm.c`: arena, holes, reservations, faults | component |
| `FramePool` | what the frame allocator promises | abstract |
| `Pmm` | `memory/pmm.c` | implements `FramePool` |
| `Heap` | `kmalloc`, `kfree` and growth (`memory/heap.c`) | component |
| `ByteQueue` | what a pipe promises about bytes | abstract |
| `Pipe` | pipe, wait queues, descriptors, poll, signals, exits | implements `ByteQueue` |
| `Sockets` | UDP sockets under descriptors, receivers, pollers and deliveries | component |
| `Signals` | dispositions, masks, delivery, handler frames (`sched/signal.c`) | component |
| `Futex` | the pthread mutex of libgaia on `sys_futex_wait` and `sys_futex_wake` | composition |
| `SmpWork` | work queue, application processors, `framebuffer_present_user` | composition |
| `NicPoll` | driver poll task and e1000 receive ring | composition |
| `Arp` | ARP cache and the frames parked behind it (`net/arp.c`) | component |
| `Walk` | the order in which a loop over a table meets a set of slots | shared |
| `ServiceProofs` | theorems about `VfsGate`, `Futex`, `Signals`, `Arp`, `NicPoll` | proofs |
| `PartProofs` | theorems about `Dispatch`, `SmpWork`, `Sockets` | proofs |
| `PipeProofs` | theorems about `Pipe` | proofs |
| `MemoryProofs` | theorems about `AddressSpace`, `Heap` | proofs |
| `WalkProofs`, `SchedProofs` | theorems about `Walk`, `Sched` | proofs |
| `TaskLifeProofs`, `TaskLifeTheorems` | theorems about `TaskLife`: the table, then the exit codes | proofs |
| `MCFiles`, `MCParts`, `MCDispatch`, `MCSched`, `MCTaskLife`, `MCPipe`, `MCServices`, `MCMemory` | instances for TLC | |

`MCFiles`, `MCParts`, `MCServices` and `MCMemory` each check several modules that
share no state: a variable `part` says which of them runs, the others rest. That is
one search of each module, not of their product.

**VfsGate.** `owner`, `queue` and `active` are the static `owner`, the waiter list
and `task->vfs_active`. `vfs_lock` takes a free gate or queues and parks;
`vfs_lock_resume` is the `while (owner != task)` re-test after any wake-up, the
gate's or not; `vfs_unlock` hands over and wakes. `task_block` and `task_wakeup` are
disk waits inside an operation and wake-ups from elsewhere, `task_kill` is refused
when `vfs_active` is set. The two panics (recursive entry, unlock by a non-owner)
are guards.

**ReadyQueue, Dispatch.** `rq` holds the three lists and the two counters. `Popped`
is `ready_pop`: the level it picks and what that does to `high_streak` and
`low_starve`. `high_streak` is kept at most at the burst, which is all the code
compares it with. `waited` in `Dispatch` is an observer: how often each level with a
ready task has been passed over.

**Sched.** Actions are the kernel's functions; `KernelExit` gathers the ways a task
leaves the kernel (return, yield, block, timed block, sleep, exit). `timer_irq` is
the tick: `sched_wake_sleepers`, then `sched_preempt_tick`. Time is relative: each
sleeper and timed waiter carries the ticks it has left, so there is no clock to
bound. The idle task's look and its `hlt` are two steps with interrupts possible
between them. `cause` is an observer that remembers what ended a timed block.

**TaskLife.** A slot is a record with the fields of `struct task` that matter here;
`pc` and `arg` say which call a task is parked in. `mark_task_exited` is one action
with everything it does: the claimed child released, joiners and exec callers woken,
the exit record written, the parent's wait4 woken. `task_reap_unclaimed` and
`task_reap_done` are the two halves of a reap, because closing files may sleep; a
spawn on a full table reaps first, with `pc = "alloc"`. `loader_take` and
`loader_finish` are the loader's two steps around its disk reads. `exited`, `taken`
and `lost` are observers. Address spaces, and the frames a process has shared out, are the business of
`AddressSpace`; here only the flag that the record threads share is intact. The
reaper skips a zombie with frames shared out, so what is said about reaping here is
said of tasks that share none.

**Pipe.** `data`, `head`, `count`, `readers` and `writers` are the fields of `struct
pipe`; `readable` and `writable` are the tasks linked to each queue; `fds` counts a
task's descriptors for each end. A byte is named by its writer, its place in the
write and the length of the write, so that order and wholeness can be stated.
`ReadLoop`, `WriteLoop` and `PollLoop` are the bodies of the blocking loops, entered
by a call or by a resume. A write that does not fit writes what does, finds the ring
full and parks in one step, as the loop does with interrupts off. `mark_task_exited`
here is the part of exit that concerns the pipe.

**Vfs.** `supers` is the mount table with each mount's superblock and live inodes,
`files` the open files. An operation works on a record `w` that carries the state,
the references it holds and the allocations that still succeed, and takes and drops
references one at a time where the code does. The backend is external: it does what
it is asked or refuses. Each mount has a volume of its own; handles are
interchangeable.

**Ext2.** `image` is the volume in memory, `dirty_blocks` the dirty bitmap. Each
operation (create, unlink, mkdir, rmdir, truncate, setmode, write) is one change of
the image followed by the sync its VFS hook ends in. `ext2_sync` is a sequence of
steps: mark the superblock unclean and flush, write every dirty block and flush,
mark it clean and flush. `disk` is durable, `pending` may be: `AfterPowerCut` is any
choice of the versions written since the last flush.

**Fat.** `volume` is the FAT and the data in memory, `device` what was written
through. Every operation passes a record along (volume, device, and each state the
device went through); `Done` compares those states with what a power cut may leave.
`contents` remembers what was written to each file, and `fat_read` walks the chain
with its cursor and compares.

**Sockets.** `socket_list`, `sockets` and `next_port` are the list, `fd_refs`, port
and queue length of each socket, and the ephemeral counter; `held` counts each
task's descriptors. `socket_handle_incoming` is the delivery in the poll task: it
appends and wakes everyone on the queue. The reaper's `task_close_fds` closes one
descriptor per step, since closing a file may sleep.

**Pmm, FramePool.** `FramePool` is a set of free frames: an allocation returns some
free frame (below the limit, or a run) or fails only when there is none, and a free
gives back. `Pmm` has the bitmap, the counter and the next-fit hint, searched byte
by byte as `find_free_frame` does, and is shown to implement it; that `used_frames`
is exact is part of the mapping.

**Heap.** `blocks` maps the address of a header to the header (size, free, two
links), beside `head`, `tail` and `heap_end`. `given` remembers payloads handed out.
Growth may get fewer frames than it asked for.

**Uvm.** `vmas`, `mmap_holes` and `mmap_next_va` are the task's tables, `pte` the
page table, `taken` the frames in use. All of uvm.c is here, a committed page at a
time, with tables that fill up and frames that run out.

**AddressSpace.** `rec` are the `struct task_vm` records with their counts, `space`
the PML4s, `maps` the pages shared between processes. `task_reap_unclaimed` claims
and sleeps, `task_reap` frees. A record cleared by `sys_thread_exit` while siblings
use it is remembered in `detached` (see "Other observations").

**Signals.** `signal_actions`, `sig_pending` and `sig_blocked` are the fields of
`struct task`, `frames` the handler frames on the user stack, each with the mask it
restores. `mode` says where the task is. Every way back to ring 3 delivers: the
lowest deliverable signal, until one enters a handler. Inside a handler a program
only blocks more.

**Futex.** `word` and `futex_addr` are the mutex words and the key a thread is
parked under. The exchange in ring 3 and the compare-and-park in the kernel are
separate steps.

**SmpWork.** `work` is the ring, `work_lock` its spinlock, `ipi` an interrupt held
pending at an AP, `ap` and `bsp` the program counters, `batch` the record on the
presenter's stack. The AP's `sti; hlt` is one step, as the processor guarantees.

**NicPoll.** `desc`, `rdh`, `rdt` and `rx_current` are the ring; `poll_kicked` is
the flag of the poll task; `line` observes frames stored and not yet handed over.

**Arp.** `cache` and `pending` are the two tables; `sent` observes where the frames
of the last step went.

## Runs

| Run | Instance | Shows |
| --- | --- | --- |
| `filesystem` | VFS: 3 mount slots, 2 handles, 3 inodes a volume, paths of depth 2; ext2: 3 inodes, 4 data blocks, 2 names | open files and mounts stay usable and no reference is left behind, also when memory runs out; the ext2 image is consistent after every operation, and a volume marked clean after a power cut is whole: the one last synced, or the one being written |
| `parts` | dispatch: 3 tasks, burst 4 (the kernel's), floor 16; sockets: 2 tasks, 2 sockets, 2 ephemeral ports; FAT: 3 clusters of 2 cells, 2 names, one of them a directory's | starvation bounds; exact socket references, ephemeral ports with one owner, nobody asleep on data; FAT files read back, chains whole, no cross links or stale entries after a power cut |
| `sched` | 2 tasks, waits of up to 2 ticks, quantum 2, burst 1, floor 2 | lists, states and counters agree; timed waits report their cause; ready tasks run; sleepers wake |
| `task_life` | 3 slots, 4 pids, 2 records | codes delivered once or accounted for; one reaper per slot; loads and requests match; a cancelled load never runs |
| `task_life_threads` | 3 slots, 3 pids, 1 record, threads, fair | joiners, loads, the reaper and wait4 make progress |
| `pipe` | 2 tasks, ring of 2, PIPE_BUF 2, writes of 2 and 3 | `PipeInv`, refinement of `ByteQueue` |
| `services` | gate: 3 tasks; 3 processors, ring of 2, 3 lanes; 3 descriptors; 3 hosts, 2 entries, 2 slots; 3 threads on 3 mutexes in 2 pages; 3 signals, 2 handler frames | filesystem operations exclude each other in order and every caller enters, as `FifoLock` promises; no lost kick, whole presents that return; frames in order and handled; parked frames go to the host they are for, or are given up; mutexes exclude and are handed on; signals are taken and handlers not re-entered |
| `memory` | 7 frames; heap of 2 to 3 pages; arena of 3 pages, 2 VMAs, 2 holes, 2 frames; 3 pids, 3 records and spaces | `Pmm` implements `FramePool`; heap list whole; pages own their frames and the arena hands out free pages; address spaces outlive their users and do not leak; exec frees no frame that is still shared |

Four more runs show where the code does something other than its comments say.

| Run | Property | What happens |
| --- | --- | --- |
| `dispatch_burst` | `NormalWaitsOneBurst` | a LOW floor dispatch resets `high_streak` in the middle of a burst, so a NORMAL task waits longer than the comment on `SCHED_HIGH_BURST` says |
| `task_life_claim` | `ClaimedHaveWaiter` | an exec caller killed after its child woke it and before it ran leaves a zombie nobody claims |
| `task_life_child` | `WaitersHaveWork` | a process whose first task leaves through `thread_exit` wakes no wait4 caller |
| `pipe_short` | `BlockingWriteIsWhole` | a signal makes a blocking write return short |

### Bounds

- `sched`: two tasks are enough for every pair of actors (a third only lengthens
  queues, and queue order is what `Dispatch` and its proof are about). Burst and
  floor are lowered so that both fall due within a few dispatches; `parts` uses the
  kernel's burst, and a floor several bursts away. `NoStarvation` is proved for all.
- `task_life`: three slots give a parent, a child and a third party that kills,
  joins or waits, and a table that fills up; four pids let a slot be used again; one
  or two exit records overflow.
- `pipe`: two bytes wrap, fill and empty; lengths 2 and 3 lie on the two sides of
  `PIPE_BUF`. `PipeProofs` covers any finite set of tasks.
- `filesystem`: three mounts nest, and the table fills; paths go into a mount, back
  over `..` and below a file; two handles share an inode. Four ext2 blocks are fewer
  than three inodes can ask for, so allocation fails at every point; one file
  reaches behind its indirect block; two names and a block of three entries (`.` and
  `..` among them) make a directory grow.
- `parts`: two sockets and two ephemeral ports exhaust the range and wrap it; three
  clusters fill up in the middle of a write, of a directory's growth and of a gap's
  zero fill. `MaxRefs` and `MaxQueued` cap what the code does not.
- `services`: two workers and a ring that holds one job, so that submissions are
  refused; a present may follow another while a worker is late. The receive ring
  fills and laps. More hosts than entries and more frames than slots force reuse.
  Two mutexes share a page, one has its own. A third signal arrives while two
  handlers are on the stack.
- `memory`: seven frames in bytes of two, with a reserved one in the middle and a
  partial last byte, make the hint wrap and a run straddle bytes. Heap requests
  split, fit exactly and need growth. Two VMAs and two holes overflow.
  Three pids give a parent, its vfork child and a thread; each record and PML4 has
  its own name, so a stale use shows.

Caps on counters are constants that appear in guards: `MaxPid`, `MaxFds`, `MaxVm`,
`MaxShared`, `MaxAge`, `MaxDepth`, `MaxRun`,
`MaxPages`, `MaxRefs`, `MaxQueued`, `MaxSize`. `MaxBusy` is the code's own limit of busy passes, 2 for 8. `CHECK_DEADLOCK` is off where a system
may come to rest: pids run out, every task has exited, a process was terminated, or
the power has gone.

### Fairness

- Gate: a runnable task goes on with `vfs_lock` (the dispatch bounds justify it), a
  disk request completes, and an operation ends after parking finitely often (strong
  fairness of `vfs_unlock`, since a parked operation is not enabled to end).
- `Sched`: the timer keeps ticking, also in ring 3; the idle loop runs; a stretch of
  kernel code ends. Nothing is assumed about which ready task is chosen: that is
  what `ready_pop` decides.
- `TaskLife`: the loader, the reaper and a runnable task inside a call get their
  turns, by the same dispatch bounds. Nothing makes a program exit or call wait4.
- SMP: each processor that runs takes its next step. An AP may never come up.
- Network card: the poll task is dispatched and its idle timeout fires. Neither the
  card nor its interrupt owes anything.
- ARP: time passes and the poll task calls `arp_tick`. No host has to answer.
- Futex: a runnable thread gets its turns and a critical section ends.
- Signals: the timer interrupts ring 3, a ready task is dispatched, and waits inside
  the VFS end.

## Proofs

Each theorem holds for every value of the constants allowed by the named
assumption of its module. Every one is an invariant, an action property or a
refinement, from an inductive invariant stated beside the proof.

`ServiceProofs`:
- `GateInvariant`, `OwnerWoken`, `GateIsFifo` (`VfsGate`). Mutual exclusion
  alone is not inductive: it needs that `vfs_active` marks exactly the tasks in
  `vfs_lock` or inside (so a kill cannot remove a queued task), that each waiter is
  queued once, and that the owner is not queued. `OwnerIsWoken` is inductive beside
  that: a waiter becomes owner only in the unlock that wakes it. The refinement maps
  owner and queue to one line.
- `MutexesExclude`, `WaitersAttended`, `MutexesSafe` (`Futex`). `FutexInv` adds
  to exclusion that a word of 1 has its holder (`WordHeld`) and that a blocked
  thread's key is the page of the mutex it wants (`BlockedOnPage`). Then,
  for a mutex alone on its page, a waiter is never stranded: somebody holds the
  word, is about to wake, or has been woken. Any number of threads, mutexes and
  pages.
- `ParkedWithoutSignal`, `NoReentry` (`Signals`). A handler is on the stack
  twice only if it asked for it (SA_NODEFER), in a program that does not unblock
  signals inside a handler. That needs the saved masks: returning restores a mask
  which must still block the signals of the handlers further down (`Chain`). Any set
  of signals, any depth.
- `ParkedFramesKept`, `FramesSentWhereClaimed` (`Arp`). `ArpInv`: an entry's
  address is one its host claimed, a host has at most one entry, a parked frame is
  behind the entry of its own host. The last is what reuse of an entry could break,
  and why `arp_alloc_locked` drops what was parked behind its victim.
- `RingInOrder`, `NoKickLost` (`NicPoll`). The invariant describes the ring as
  a window: the frames of `line` lie from `rx_current` on (`RingHolds`), the head is
  behind the last of them and the tail is the place before `rx_current`
  (`RingEnds`). The work is modular arithmetic, gathered in a few lemmas about
  places. Any ring of at least two descriptors.

`PartProofs`:
- `DispatchInvariant`, `NoStarvation` (`Dispatch`). LOW's wait is at most
  `low_starve`. NORMAL's wait is at most `high_streak`, or LOW was served in the
  meantime; then both counters have counted together since and LOW is not due again
  before the burst ends. Assumes burst at least 1 and floor above burst.
- `NoLostKick`, `BatchOutlivesJobs`, `EveryLaneOnce`, `PresentWhole` (`SmpWork`).
  `Control` says who holds the lock and which program counters go
  together; `Ledger` says that queued lanes, lanes being copied and finished lanes
  are apart, that each was begun once, and that `remaining` counts the unfinished.
  From the ledger: the presenter leaves only when no job refers to its stack. Any
  number of processors, any capacity, any number of lanes.
- `SocketsHold` (`Sockets`). `TableOK` relates the list, the sockets and the
  descriptors: a socket is listed once exactly while its count, the cardinality of
  the set of its descriptors, is not 0. `UsersOK` adds that a task waits only for
  sockets it has a descriptor for, so that no close by another task can free the
  queue it is on, and that a slot is free only once the reaper has dropped its
  descriptors. dup2 is proved as its two halves, the new reference and then the old
  one. Any finite set of tasks, any sockets and ports; the ephemeral range starts
  above 0 and no program asks for a port of it by number.

`PipeProofs`: `PipeInvariant`, `PipeIsQueue`. The counts are the cardinality of
the set of descriptors; a lemma says how a change of one task's descriptors moves
it. One lemma (`CallInv`) carries read, write and poll: a step
that leaves its own task settled, and wakes readers when bytes came in and writers
when bytes went out, keeps the invariant. The refinement rests on where the two
copies of a wrapped transfer put each byte (`CellOfWrite`). Assumes a finite set
of tasks and `0 < PIPE_BUF <= PIPE_CAPACITY`.

`WalkProofs`: `InOrderWalks`. A walk over any set of slots of a table exists and
meets each slot once, in order; `InOrder` is a CHOOSE, so without this nothing could
be said of the kernel's scans. The induction is done by hand, as a minimal
counterexample: the subsets of a finite set are well-founded by inclusion. The
module also holds the lemmas other proof modules share: a list with one place
removed or one list joined to another, and the number of descriptors when those of
one task change (`FdsChange`, for pipes and sockets).

`SchedProofs`: `ListsAndCountersAgree`, `WaitReportsItsCause`, `TickWakesAllDue`.
The invariant `FullInv` has three parts. `ListsInv`: the ready tasks are on the
ready lists once and at their level, and only the current task is running; it is
stated of a queue, a table of states and a current task, so that it can be carried
through the walk of `sched_wake_sleepers` slot by slot (the induction is on the
function that computes the walk, by its last step). `CountInv`: the two counters are
cardinalities, a deadline means a blocked task. `WaitInv`: the flags a timed wait
reads when it returns say what ended it, which needs that only a blocked task can
have a claim on another. Any number of tasks, any quantum and bounds of the policy.

`TaskLifeProofs`, `TaskLifeTheorems`: `LifeHolds`, `TableAgrees`, `JoinsAreLive`,
`CancelledStaysDead`, and without threads `CodesAccounted` and `WaitsAreLive`.
`LifeInv` describes the table: `PidsOK` (a pid of its own for each slot in use),
`ReapsOK` (each dead slot has exactly one reaper, and a task that reaps stays parked
until it is done), `ParksOK` and `JoinsOK` (who waits for whom), `LoadsOK` (loading
slots and requests correspond one to one). It is stated of a table, a queue and a
map of reapers given as arguments, because `mark_task_exited`, `thread_exit` and a
full table's reap change them in several stages. `CodesInv` follows each code from
exit to delivery: `PastAt` and `ExitAt` relate a slot to what was observed of its
pid, `RecordAt` a record, `ExecAt` an exec caller and its child, `Wait4At` a wait4
caller; `KeptAt` is the conclusion. Threads are left out there (`~Threads`) since with
them `WaitersHaveWork` is false: that is what the run `task_life_child` shows. Any
table, any number of records, pids and codes.

`MemoryProofs`:
- `SpacesOwned`, `SharesOutliveExec` (`AddressSpace`). `OwnersInv` says that the
  count of a record is the number of tasks that use it, that a space belongs to the
  record that names it or to the task that is about to free it, and that a borrowed
  page is counted by its owner. Any number of tasks, records and shared pages.
- `HeapSound` (`Heap`). `Tiled`: the blocks cover the heap without gap or overlap
  and are linked in the order of their addresses; `Merged`: no two neighbours are
  free; `Lent`: the blocks in use are the payloads handed out, each large enough.
  Growth breaks `Merged` for one block before it repairs it, so `Merged` takes that
  block as a parameter. Any header, page and heap size.

The proofs name the SMT solver only on the leaves that need arithmetic; Zenon is
tried first everywhere else.

Only model-checked: `Vfs`, `Ext2`, `Fat`, `Uvm`, the refinement
`Pmm => FramePool`, and all liveness. Liveness under fairness and `ENABLED` are
beyond TLAPS as installed. So is induction over data with the library's theorems,
which the scan of the bitmap, the walks of chains and trees and the folds of a
lookup need.

## Other observations

Seen while modelling, and not given a run of their own.

Tasks and signals:
- `task_exit` switches away without clearing `need_resched` (`sched.c:1594`; the
  comment at 213-215 says every switch clears it): the next task may lose its slice.
- a joiner of a thread that left through `exit` returns, but nobody reaps the thread
  (`syscall.c:3069`; the comment at `sched.c:1482`).
- a thread that leaves through `exit` leaves an exit record (`sched.c:1503`;
  `sched.h:227` says records are for processes).
- a pending signal whose disposition becomes SIG_IGN stays pending and may end one
  more wait with EINTR; a kill refused because of `vfs_active` is dropped with
  EAGAIN; a stream of low-numbered signals passes over a higher one, which
  `SignalsAreTaken` allows.
- an AP that comes up after the boot timeout (`smp.c:28-31`) still joins the
  workers; the model allows it at any time.

Futexes and memory:
- a futex is keyed by its page (`syscall.c:3088-3093`): a wake for one mutex may go
  to a waiter of another in the same page, so `NoStrandedWaiter` is stated for a
  mutex alone on its page.
- `sys_thread_exit` with siblings (`syscall.c:3049-3054`) clears the PML4 and its
  count in the record they share: the record may be freed while they hold it, and
  the space is never freed. `detached` keeps these records out of the properties.
- the reaper's test of `shmem_shared_out` comes before the close that may sleep; a
  sibling that shares and execs meanwhile gets its frames freed while shared.
  `process_exec`'s own reap does not look at the count.
- MAP_FIXED inside the arena, or munmap of arena addresses never handed out, makes
  `arena_alloc` hand out addresses in use (`astray`).
- `uvm_protect` leaves the reservation's flags, so a discarded page comes back with
  the old ones; pages it committed stay when it returns -1.
- `vmalloc` ignores a failed `vmm_map_in`; a failed `large_alloc` leaks the frames
  it had, as its comment says.

Filesystems and network:
- FAT removal and truncation free the chain before the entry is erased or updated:
  a power cut between leaves an entry that names free clusters. `CutSafe` therefore
  asks for no stale names and no cluster in two files, and not for that.
- a device may be mounted twice, each mount with its own cache (`mount_type` and
  `sys_mount` do not ask `vfs_device_mounted`); a mount over an ancestor hides a
  deeper mount.
- a page-read error inside `free_indirect` (`ext2_inode.c:174-176`) leaves the tree
  allocated while the inode forgets it, and the next sync marks the volume clean;
  `dir_lookup` reports a read error as "not found".
- `socket_bind` accepts a port in use, and the newest socket gets the datagrams; the
  receive queue has no limit; an unbound socket has port 0.

## Plan

Done: gate, VFS, ext2, FAT, dispatch, scheduler, task lifecycle, address spaces,
frames, heap, pipes, sockets, signals, futexes, SMP work, poll task, ARP. What could
follow, in order of worth:

1. one task lifecycle: `TaskLife` and `AddressSpace` share spawn, exit and reap, and
   are abstractions of the same code; a composition would say that a slot and its
   space come back together;
2. failed reads in `Ext2`, failed writes in `Fat`, and the lazy page cache;
3. proofs of `Uvm`'s tables and of `Vfs`'s references;
4. process_execve with its argument vectors and the image it maps.

## Not modelled

- Drivers but the e1000 receive path, display but the parallel present, fonts, input
  decoding, boot and discovery: hardware setup or data with no concurrent state of
  their own.
- Input and IPC rings (`msg/msg.c`): one producer, one consumer, interrupts off.
  Nothing interleaves inside an operation and nobody waits on a ring.
- Image formats, header parsing, TCP's header checks, printf and strings: sequential
  and covered by the host tests. Page-table walks and register and FPU switching are
  below the grain used here.
- `Vfs`: hard links, filesystem registration, directory listing. `Ext2`: more than
  one block group, entries of different size, double and triple indirection,
  permission bits, a volume refused at mount. A block write is atomic.
- `Fat`: long names and aliases, FAT32 roots, a second copy of the table, times and
  attributes, failing writes, mounting, the older path calls. After a power cut only
  what is on the device is judged; FAT has no recovery to model.
- `Sockets`: the contents of datagrams, local addresses other than the wildcard, the
  echo thread. A datagram dropped for want of memory is no step; no host sends to
  port 0.
- Userspace stays above the system-call interface, except the pthread mutex.

The definitions map about 5,900 source lines, an eighth of the kernel's 47,000 and
about 1 % of all C in the tree: `src/rootfs` and `src/userspace` carry over 500,000
lines of vendored libraries and programs (musl, headers and ports) that the kernel
runs but that are not the system specified here.
