# uCore (lab 8) in TLA+

The repository is the course material of a teaching operating system for one
x86 processor: eight labs, each a later stage of the same kernel.  Lab 8 holds
all of it, and this project is about `src/labcodes/lab8`; paths below are
relative to its `kern/` directory.  Labs 1 to 7 and `labcodes_answer` are not
looked at.

Run the tools here: `tlc -workers 2 -config Process.cfg Process`,
`tlapm ProcessProofs.tla`.  `PROJECT.json` lists the runs, the mutants (one
plausible bug in the code per property, which TLC must catch), the lines of the
source each definition stands for, the hazards and the theorems.

## What interleaves with what

The kernel decides what an action may be, so this comes first.

* There is one CPU.  It changes hands inside `schedule()` and nowhere else.
  `trap()` calls `schedule()` only on the way back to user mode (trap.c:307), so
  the kernel is not preemptible.
* Interrupts stay enabled in the kernel: a system call enters through a trap
  gate.  The timer and the keyboard may run a handler between any two
  instructions that are not inside `local_intr_save`.  So a section with
  interrupts off is one action, and elsewhere an action ends where a handler
  could make a difference.
* The disk is polled.  A file operation never sleeps inside, the locks it takes
  are never contended, and it is one action.  So is an operation on memory: no
  interrupt handler allocates or frees a page.  What does sleep: `do_wait`,
  `do_sleep`, `down` in the monitor and the philosophers, a read of stdin.
* A process killed in the kernel goes on; PF_EXITING is looked at when a wait
  ends and on the way back to user mode.

`Process` models the CPU itself.  The other modules let any process that is not
asleep take the next step.  That is more than one CPU allows, and includes every
order `schedule()` can produce: a safety property that holds of it holds of the
code, and each liveness property names the fairness it takes from `Process` or
`Stride`.

## The system

| Component | State | Operations | Interacts with | What makes it right |
|---|---|---|---|---|
| Processes (`process/proc.c`, `trap/trap.c`, `syscall/`) | `proc_struct`: state, wait_state, flags, need_resched, time_slice, family | fork, exit, wait, kill, sleep, yield, exec | the scheduler, timers, memory, files | no wakeup is lost, nobody has a dead parent, a struct is freed once and late enough, the asserts hold |
| Scheduler core (`schedule/sched.c`) | `current`, run queue | `wakeup_proc`, `schedule` | called by everything that waits | the queue is exactly who may run |
| Stride policy (`schedule/default_sched.c`, `libs/skew_heap.h`) | skew heap, strides, priorities | enqueue, dequeue, pick | `sched.c` through `sched_class` | order under wrap-around, no starvation |
| Timers (`schedule/sched.c`) | sorted list of differences | `add_timer`, `del_timer`, `run_timer_list` | the clock interrupt, `do_sleep`, `do_kill` | everybody sleeps their time; no timer outlives its stack frame |
| Semaphores (`sync/sem.c`, `sync/wait.c`) | value, wait queue | `down`, `try_down`, `up` | `wakeup_proc`, `do_kill` | permits are conserved and handed out in order |
| Monitors (`sync/monitor.c`) | three kinds of semaphore, two counts | `cond_wait`, `cond_signal` | semaphores | one process inside, the signaller goes first |
| Philosophers (`sync/check_sync.c`) | states, forks | take, put | semaphores, monitor, `do_sleep` | exclusion, and everybody eats |
| stdin (`fs/devs/dev_stdin.c`) | ring, two offsets, wait queue | keyboard write, read | interrupt, `do_kill` | characters in order, nobody asleep beside one |
| SFS (`fs/sfs/`) | free map, disk inodes, inodes in memory | read, write, seek, truncate, sync, look up | disk, open files, semaphores | each block has one owner; what is saved agrees with what is used |
| Open files, VFS (`fs/*.c`, `fs/vfs/`) | file tables, working directories, ref_count, open_count, reclaim_count | open, close, dup, chdir, getcwd, fork's copy, exec, exit, reclaim | SFS, devices, processes | the counts are the references there are; what is closed is saved |
| Pids and family links (`process/proc.c`) | proc_list, hash_list, last_pid, next_safe, cptr, yptr, optr | get_pid, set_links, remove_links, the loop of do_exit | fork, wait, exit | no pid twice; the pointers lead to the children |
| Physical memory (`mm/pmm.c`, `mm/default_pmm.c`) | free list, flags, page counts, page tables | alloc, free, map, unmap | everything | the list is sorted, merged and counted; no page is lost or has two owners |
| Virtual memory, exec (`mm/vmm.c`, `process/proc.c`) | areas, page directories | page fault, dup_mmap, exit_mmap, load_icode | physical memory, fork, exec, exit | pages are mapped where there is a table, and freed once |
| swapping, kmalloc, drivers, boot, debugging, libraries, user programs | | | | see "What is not modelled" |

Hard here: ticks and key presses between two kernel instructions; waits that end
for two reasons at once; wakeups long before the woken process runs; words that
wrap around; a disk or a memory that is full half way through an operation;
counts that every way out of a call must bring back.  Each place is
in `PROJECT.json` under "hazards" with the properties that watch it.

## The modules

```
Process          the CPU, the life cycle            ProcessProofs  theorems
Family           pids, proc_list, cptr/yptr/optr    FamilyProofs   theorems
TimerList        the delta list      implements     Timers         ticks left
  MCTimerList                                       (theorems in ProcessProofs)
Semaphores       steps of down/up (no behaviour of its own)
  SemLock          a semaphore used as a lock       (theorems in SfsFileProofs)
                   implements                       PermitPool     permits, in order
  Monitor          steps of cond_wait/cond_signal
    DiningMonitor  the philosophers  implements     Dining         eat with both forks
                                                    DiningMonitorProofs  theorems
  DiningSemaphore  the philosophers  implements     Dining
                                                    DiningSemaphoreProofs  theorems
Stride           strides and the skew heap            (theorems in DiningSemaphoreProofs)
StdIn            ring and readers    implements     Keyboard       a queue of characters
SfsFile          block map, free map, inodes, positions, sync and mount
  MCSfsFile                                         SfsFileProofs  theorems
Files            descriptors, working directories, counts of inodes
  MCFiles                                           FilesProofs    theorems, and those of StdIn
FirstFit         the free list, as functions of records
  Memory         fork, exec, fault, exit and wait, page by page
    MCMemory                                        MemoryProofs   theorems
                                                    Passes         what a loop keeps
```

What ties the modules for one process together is `proc.c`: its `do_fork`,
`do_execve`, `do_exit` and `do_wait` are in `Process` (who runs, sleeps, is woken
and is dead), in `Family` (numbers and pointers), in `Files` (descriptors) and in
`Memory` (pages).  They touch disjoint variables, in the order in which the code
calls them, and a failure of one part is a choice the others allow: `ForkFail` of
`Process` is a `do_fork` of `Memory` without a stack, an exec that ends in `do_exit`
is a process that exits.

**Process.**  A pid is its struct; a free struct has state `NONE`.  `pc` says
where each process is in the kernel, or will go on when it is chosen (`Parked`).
`Schedule(back)` is `schedule()`: it requeues `current` if it is runnable and
picks *any* queued process, so what holds does so under every scheduling class.
`Wakeup(S)` is `wakeup_proc` of each member of `S`, its assertion included.
`do_wait` and `do_exit` are split where interrupts are on: between PROC_SLEEPING
and WT_CHILD, between the look for children and the sleep, before and after the
section of `do_exit`.  `do_kill` is split between its look at `wait_state` and
its `wakeup_proc`.  `Tick` may come between any two of these.  Timers are the
ticks left (`TimerList` shows that the list keeps them); memory and files are
the failures of `do_fork`.  A failed assertion or a panic sets `halted`.

**TimerList.**  `AddTimer`, `DelTimer` and `RunTimerList` change the sequence of
differences as the three functions do; `Timers` only knows how many ticks each
sleeper has left.

**Semaphores, SemLock, Monitor, DiningMonitor, DiningSemaphore.**  `Semaphores` has the steps:
`down` that takes, that sleeps, and its second half after `schedule()`; `up`.  A
wait_t exists while its process is in `down` (`wakeup_flags # "none"`).
`SemLock` is the life of a lock, with kills; `Monitor` writes `cond_wait` and
`cond_signal` with the same steps, one action up to each place that can block;
`DiningMonitor` is `philosopher_using_condvar` over it.  `DiningSemaphore` is
`philosopher_using_semaphore` on the semaphores alone, with each `down` and `up` a
step of its own; no run repeats what is proved about it.  `Philosophers` is what the
two share.

**Stride.**  Words have 2 * `HalfWords` values and wrap around.  It is the skew heap
that is modelled, with its root and the three pointers of each process, and not the set
of its members, because the comparison stops being an order.  `skew_heap_merge` of the
code calls itself down the right sides of two heaps and links what it gets on the way
back; in the model it links on the way down, one call in `Descend` (`Hang` below the
last one that stayed, then `Turn`), which leaves the same pointers, since the comparison
looks at strides alone.

**StdIn.**  `dev_stdin_write` is the interrupt.  `ReadLoop` is a reader's way
from where it starts or wakes up to where it returns or sleeps, all with
interrupts off.  A kill and a key may both end a wait before the reader runs.

**SfsFile.**  The operators on records (`sfs_bmap_load_nolock`,
`sfs_truncfile`, `sfs_io_nolock`, ...) are the functions on one inode and the free
map, with the point where they fail; the actions are the calls on a descriptor.  A loop
over blocks is a function of the number of passes (`LoadAll`, `TruncateAll`).
Contents are left out: what a property needs is which block is where.  A disk
that fails panics in `dev_disk0.c`; the error left is a full disk.
`fs_cleanup` is `sfs_sync` at the end of init_main and `sfs_do_mount` the next boot;
`on_disk` is the free map as sfs_sync wrote it last, `disk` the inodes.

**Files.**  An inode is its four fields ref_count, open_count, reclaim_count and
dirty; `NoInode` is not in memory.  `RefInc`, `RefDec`, `OpenInc`, `OpenDec` and
`Lookup` act on a record of all inodes, and the calls are sequences of them, as in
the code: `vfs_getcwd`, say, takes a reference, and sfs_namefile takes another and
trades it for one of the parent on each pass.  The loops over the descriptors
(`dup_files`, `CloseFrom`) are functions of the number of passes.  A name is the node it leads to.  What
a call does when an operation is missing in the table of an inode stops the
kernel (`Stop`).  `lost` is a history variable: the references that an open with
O_EXCL keeps.

**Family.**  `get_pid` is one pass of its loop, and so is `GiveChildAway` of the
loop in `do_exit`; since interrupts are off nothing else is enabled meanwhile.  The
pointers are functions with NULL, and `do_wait` finds its zombie along them or in
hash_list, as the code does, never by looking for the parent.

**FirstFit, Memory.**  `default_alloc_pages` and `default_free_pages` map a record
of the allocator to the next one; `alloc_pages` adds what happens when there is no
page: it does not fail, it calls swap_out with a null pointer, and the record's
`res` says so from then on.  `Memory` threads that record through `get_pte`,
`page_insert`, `copy_range`, `exit_range`, `load_icode` and the rest, so that an
operation takes and frees its pages in the order of the code and stops where the
code stops.  An area that is outside the user addresses or starts inside another one is refused
(`mm_map`: -E_INVAL, after which nothing more is done until load_icode frees what it has);
`insert_vma_struct` stops the kernel at other overlaps, as the assertions of
`check_vma_overlap` do.  Its loops (over the pages of an area, the areas of an address space, the
segments and arguments of exec) are `Each`, which does one function for each member of
a sequence in turn.  kmalloc's small objects are left out; a page it takes (a file table, an
argument of exec, a buffer) is not.

## The runs

| Run | States | What it shows |
|---|---|---|
| `process` | 31,009 | every order of fork, wait, kill, sleep, exit and tick; sleeps end, orphans are reaped, killed sleepers exit |
| `process_kill` (violation) | 31,009 | a killed process may never exit |
| `timer_list` | 769 | the delta list implements "ticks left" |
| `semaphore_lock` | 2,064 | permits conserved, handed out in order, waiters enter |
| `dining_monitor` | 172,048 | the monitor is in one hand, forks and meals |
| `stride` | 241,664 | the heap, the order under wrap-around, no starvation |
| `stdin` | 40,503 | no lost key, no lost wakeup, order |
| `sfs_file` | 372,045 | blocks have one owner through failures, closes, reopens and reboots |
| `sfs_stale_position` (violation) | 117 | a stale file position stops the kernel |
| `files` | 109,736 | the counts of inodes are exact, and what is closed is clean |
| `family` | 342,317 | pids are unique around MAX_PID, the pointers are the children, the loops end |
| `memory` | 180,082 | the free list is sound, every page has one user, and only executables with areas across each other stop the kernel |

Deadlock is checked in the `process*`, `timer_list`, `semaphore_lock`, `stride`
and `family` runs.  In `Process` a kernel that has stopped (`Stopped`) stutters.
The others may end: the philosophers quit, the keyboard runs out of characters,
the files, the file system and the memory stop at a panic.

**Bounds, and why they are enough.**

* `process*`: idleproc, initproc and two user structs are an orphan and the
  process that orphans it, which may also kill each other, and a struct that is
  freed can be reused while the other runs.  The safety properties are proved for
  any number (below); the liveness properties need the small instance, without
  symmetry, which is not sound for them.  A time slice of 1 makes every tick a
  possible reschedule; a sleep of 1 tick, with ticks at any moment, already gives
  timers that fire before, during and after the schedule() of the sleeper.
* `timer_list`: four sleepers and 4 ticks give every pattern of equal and
  different deadlines around an insertion or removal.
* `semaphore_lock`: two permits and four processes: two hold, two queue.  The
  kernel's locks have one permit, for which the theorems hold as well.
* `dining_monitor`: four philosophers, so that somebody is nobody's neighbour's
  neighbour on one side only, and two meals, so that a philosopher comes back
  while others still wait from the first round.  The source has five and four.
* `stride`: three processes and 8 words (`HalfWords` is 4).  Strides go around the circle many
  times, and a newcomer at stride 0 or a late sleeper can be on the wrong side
  of the circle.
* `stdin`: a ring of two with five characters fills, overflows and wraps; two
  readers, reads of up to three, so one read takes more than the ring holds.
* `sfs_file`: one direct and two indirect block pointers and three blocks, which
  one file can fill, so that two files compete for the last block in each of the
  three ways a block is taken, and a write or a seek stops half way.  Blocks of 2
  bytes and writes of 3 make unaligned beginnings and ends.  The largest size, 7, is
  beyond what the block map can hold, as sizes above 4.2 MB are in the source; the panic
  behind it needs a fourth block and is covered by the theorems alone.
  Mounts and shutdowns are not bounded.
* `files`: two processes with three descriptors: one more than the two that exec
  leaves open, so that the program's own descriptor may be the last.  A file, a
  device, the root and one more directory are the four kinds of inode (held by
  nobody at first or always held; with or without vop_reclaim).  `Modes` has the
  flags of the shell for `<` and `>`, those that a directory or a device refuses
  and O_EXCL; the last is bounded, to one failure on the file, because each loses
  a reference for ever.
* `family`: three user processes, MAX_PROCESS 5 (idleproc and initproc count) and
  MAX_PID 6, one more, which is the least that the static_assert of get_pid
  allows: searches start again in every way and pids wrap around while any of the
  others live.  Three processes have an eldest, a middle and a youngest child,
  and children of children that go to initproc.
* `memory`: two processes and 16 pages, which two whole processes just fill: kernel
  stack 2, file table, directory, page tables 2, program and stack, with an
  argument of exec on top.  So forks and execs succeed or run out at each step,
  and the free list is cut up in every way.  Page tables have 3 entries, so that
  the program and the lower page of the stack share one.  Four executables: one that is
  loaded, and touches the stack; two that `mm_map` refuses, for a second segment that starts
  inside the first and for a segment beyond the user addresses; and one that the
  stack reaches into from below, where the kernel stops.

**Fairness, and why the code justifies it.**

* `Process`: kernel code that can go on does so (`WF(KernelStep)`; user code owes
  nothing), the clock ticks (`WF(Tick)`), and no queued process is passed over
  for ever (`SF(Dispatch(p))`).  The last is what `NobodyStarves` shows of
  `default_sched.c`, on one condition, which is part of the fairness in both
  modules: forks stop some time.  A new process has stride 0 and may be picked
  before an old one.
* `Stride`: `WF(Resched)`, because the tick forces a `schedule()` when the time
  slice ends.  Sleeps, exits and wakeups are under no fairness.
* `SemLock`: a woken process runs again and a section ends.  `DiningMonitor`: a
  philosopher that can step does; its `do_sleep` ends (`SleepEnds`).  `StdIn`: a
  woken reader runs again; nobody has to type, to read or to kill.
* `Family`: a loop that has begun goes on (weak fairness of its passes): it runs
  with interrupts off.  Nobody has to fork, to exit or to wait.

## What the code does not do

* **`KilledExits`** (proc.c:949).  The comment on SYS_kill (proc.c:59) says that a
  kill leads to `do_exit`.  `trap()` tests PF_EXITING before `schedule()`, and
  `do_wait` after its sleep.  A process killed while it was preempted goes back
  to user mode, calls `wait` and sleeps with PF_EXITING set; a second kill
  returns -E_KILLED and wakes nobody.
* **`NoAssertFails` in SfsFile** (sfs_inode.c:356).  `assert(index <= din->blocks)`
  fails in a write through a descriptor whose file another open has truncated
  (O_TRUNC), since `file->pos` stays where it was.  A seek past the end that finds
  the disk full leads to `assert(tblks == din->blocks)` later.

Met on the way, and stated in the properties as the code has it:

* the heap's comparison of strides is no order once a new process (stride 0) or a
  late sleeper is more than BIG_STRIDE away from the rest, so that the process
  picked need not have the minimal stride that default_sched.c:104 speaks of;
  `KeepsOrder` is what is true, and `NobodyStarves` holds all the same;
* a killed reader of stdin that a key wakes goes on in its loop and sleeps again,
  because `dev_stdin_read` looks at the reason of this wakeup only;
* `din->blocks` may be raised without making the inode dirty, so that the count on
  the disk is one too low (`NoHoles` allows it);
* a seek past the end that finds the disk full keeps the blocks it has got, behind
  the end of the file; a later seek back into the file frees them again, without
  O_TRUNC.  `BlocksStay` therefore speaks of the blocks below the size;
* an open with O_CREAT and O_EXCL of what exists keeps the reference of its lookup
  (vfsfile.c:47): `lost` in `ReferencesCounted`;
* an open with O_CREAT of a name that is missing, a truncation of a directory, a
  read, write, seek or exec of one reach operations that are not there, and assert;
* without a free page the kernel does not return an error but follows
  check_mm_struct, which is NULL (pmm.c:172): `FreeListSound` allows it, and
  the error paths behind a failed alloc_page are dead;
* `mm_map` (vmm.c:172) looks for an area at the first address of the new one only.  A segment that
  starts inside an earlier one is refused with -E_INVAL, but one that starts in front
  of it and reaches into it goes on to the assertion of `check_vma_overlap` (vmm.c:107, from
  vmm.c:136).  This is the other place where the memory code stops, and
  `OnlyCrossingStops` says that there is no other way to get there;
* `__kmalloc` (kmalloc.c:224) sends every size below 4088 bytes to `slob_alloc`, which
  asserts that it is below 4080 (kmalloc.c:100), and `find_order` forgets the bits it
  shifts out, so that 8193 bytes get two pages.  No caller in the kernel asks for such
  a size, and `kmalloc` is not modelled.

## What is proved

TLAPS proves these for every value of the constants that meets the assumptions
of the modules.

`ProcessProofs` assumes only that the structs are finitely many, that idleproc
and initproc are two of them and that the bounds are naturals.

1. `TypeInv` adds to `TypeOK` that a `fork_wake` or `kill_wake` has its argument,
   without which `Wakeup` could not be typed: `TypeCorrect`.
2. `Inv == TypeInv /\ RunQueueInv /\ ControlInv /\ TimerOnStack` is inductive.
   `ControlInv` ties state, wait_state, timer and place in the kernel together.
   It is needed because `wakeup_proc` decides on the state alone: that the victim
   of a `kill_wake` is not dead, or that a timer that fires belongs to a live
   process, is nowhere tested.  From it `RunQueueCorrect`, `ControlCorrect`,
   `TimerOnStackCorrect`.
3. `Family == NoDanglingParent /\ InitFamily`, inductive relative to `Inv`:
   `ParentCorrect`.
4. `WaitingInv` strengthens `NoLostWakeup` to parents that are still on their way
   to sleep, where a child may already have died: `NoWakeupIsLost`.
5. `Shutdown` for the asserts.  init_main's last ones say that nobody but the two
   kernel processes exists when initproc has no child.  That needs a tree:
   `Rooted` says that no set of user processes contains the parents of all its
   members, which avoids paths and induction.  With `CountInv`:
   `AssertionsHold`, `CountCorrect`.  `ReapingCorrect` follows from `Inv` and
   `Family`.

The last part of `SfsFileProofs` is about `SemLock`, for a finite set of processes and any
number of permits.  `LockInv` is `LockTypeOK`, `QueueInv` and `DownNeverFails`; permits are counted on top of it with
the cardinality facts of the library.  `MutualExclusion` is the consequence for
one permit, and `ImplementsPool` maps each step of the semaphore to a step of
`PermitPool` or a stutter.

The last part of `ProcessProofs` is about `TimerList`, for any processes and any bound on
their times: `HeadCorrect`, and `SleepsCorrect`, the refinement of `Timers`.  The inductive invariant says of the list that
no process is in it twice, that its head has ticks left, and that nobody has more than
MaxTime to go.  The lemmas are about the sums of differences up to each timer: inserting a
timer takes from the next one what it adds itself, removing it gives that back, and a tick
lowers every sum by one and drops exactly those that reach zero.

`FamilyProofs`, for any number of processes and any MAX_PID above MAX_PROCESS.

1. `UniquePids`.  `PidsUnique` says that nobody has a pid between last_pid and
   next_safe, which is only true between two searches; the invariant adds what is true
   during one (`ScanInv`): the processes looked at so far have no pid from last_pid up
   to next_safe - 1.  `ListInv` says who is in the list, and that its length is
   nr_process, so that the count keeps its bounds.
2. `LinksCorrect`.  `TreeInv` says that the children of each process are a sequence which
   starts at cptr, is linked forwards by optr and backwards by yptr, and has each of them
   once (`KidsOf`; the yptr of the first is stale while `do_exit` gives the children
   away).  A parent stands further back in proc_list than its children (`OldestLast`),
   so that the parent of whoever is listed is listed itself, down to initproc.  `StateInv` says that a zombie has no
   children left once its `do_exit` is through, which is what `remove_links` relies on.

`DiningSemaphoreProofs`, for any number of philosophers above one and any number of
meals: `PermitCorrect` and `ForksCorrect`.  A philosopher is marked as eating by
somebody else's step and eats much later; the invariant says where its permit is
meanwhile (`PermitOk`), that a queue holds sleepers of that semaphore only (`QueueOf`),
so that an `up` reaches whom it is meant for, and that marks of neighbours exclude each
other (`ForksOk`).  `TestKeeps` is the one step that all of it hangs on.  The mutex is
not needed for any of this, since the kernel is not preempted within a test.  That
everybody finishes is only checked for the version with a monitor.

`DiningMonitorProofs`, for the same numbers: `MonitorCorrect`, `WokenCorrect`,
`SignallersCorrect` and `ForksCorrect`.  Three kinds of semaphore let processes into the
monitor, and `OneActive`, which counts a permit that nobody has taken yet as well as a
process that has been woken and has not run yet, is the core.  It needs to know who can be
in which queue (`SemInv`), and that both counts are those of the processes that wait for
`next` and for their condition (`CountInv`), because a process that leaves decides by them whom it lets in.
`SignalOk` says that a philosopher on its way out of `cond_wait` has its forks
already: the signaller marked it as eating, and nobody else runs in between.

`FilesProofs` about `StdIn`, for any size of the ring, any readers and any lengths: `NobodySleepsCorrect`
and `DeliversCorrect`, the refinement of `Keyboard`.  A key wakes everybody in the queue, so
that whoever sleeps does so beside an empty ring, and must be in the queue for the next key
(`QueueInv`); a reader that a kill has woken may be in it as well until it runs.  The
refinement rests on the lemmas about the ring: the slots of the unread characters are
different, since there are at most as many as slots, so that a key overwrites none of them
but, in a full ring, the first (`SlotsDiffer`, `SlotsRepeat`, `StoreStep`).

`SfsFileProofs`, for any size of block, disk and block map and any lengths and positions:
`OwnedCorrect`, `HolesCorrect`, `StayCorrect`, `MountCorrect`.

1. A call works on a record of one inode and the free map, and may fail at any block.
   `Good` says what is true of such a record between two passes of a loop: the blocks
   of the inode are apart from each other and from those of the others, none of them is
   free, every place below `blocks` has one, and the number of free blocks is what
   unused_blocks says.  `Works` says what a function may do to it: it keeps `Good`, it
   marks the inode dirty if the inode's pointers have changed and the super block if the
   free map has (`Marks`), and it keeps the blocks it has no reason to free.  There is one
   lemma for each function of the code, in the order in which they call each other.
2. A loop is a function on `0 .. n`.  The facts about it are proved by the least pass for
   which they would fail (`LeastNat`, from the well-foundedness of the naturals), since
   no theorem of induction over an operator can be used.
3. `Inv` adds what holds between two calls: `Tracks` and `Saved` say that an inode and the
   free map which are not marked dirty are equal to what is on the disk.  That is what a
   reclaim and a mount rely on: both forget what is in memory, and `sfs_do_mount` counts
   the free blocks and stops the kernel if the super block disagrees.  `MountCorrect`
   says that it never does.

`FilesProofs`, for any processes, files, directories, devices, number of descriptors
above two and flags: `ReferencesCorrect` and `CleanCorrect`.  No name may be NONE and the three
kinds of inode are apart; nothing else is assumed.

1. `ReferencesCounted` speaks of the states between two calls, but a call passes through
   many states of the counts.  `Sound(s, F, L)` says of one of them that the record `s` of
   inodes has the counts that the tables `F` make, with `L` more references, which the call has
   in hand or a failed open has kept.  There is one lemma for what each function of inode.c does
   to that: `Looks` and `Takes` put a reference in hand, `Gives` takes one out, `Opened` and
   `Closed` move one between the hand and a descriptor, `Entered` and `Left` between the
   hand and a working directory.  A call is then the chain of these in the order of the code, and
   the tables it ends with must be those the code has assigned.
2. Below that is `Fits`, on one inode, with the number of its references and of its
   descriptors: reclaim_count is 1 while there are any references, and it is dirty only while it is
   open.  `RefDecCounted` is where the counts reach zero: a last reference cannot be that of a
   descriptor, as `sfs_reclaim` of an open inode would stop the kernel, nor that of a
   device, which has no vop_reclaim.
3. `Tidy` is needed next to it: who has no working directory has no descriptors, so that
   a fork starts with an empty table and an exit leaves one.  The loops of fork, exec and exit are proved
   as those of `SfsFileProofs` are (`DupFilesFacts`, `CloseFromFacts`).

`MemoryProofs`, for any number of pages, any processes, address spaces and page tables of
any size and any executables: `FreeListIsSound`, `StopsAreCrossings`, `StacksAreFound`,
`PagesHaveOneUser`.  Assumed of the constants is what `PagesAssumption` and
`MemoryAssumption` say: there is a page, and the stack is an area of the user part of the
address space.  The segments of an executable are wherever its header puts them: they may be
empty, overlap each other, lie outside the user part and come in any order.

1. The allocator.  A free list is a sequence of blocks that are sorted and apart by a page or more
   (`BlockList`).  What `default_alloc_pages` and `default_free_pages` do to it is one thing,
   `IsSplice`: one block, or none, takes the place of those from one position to another.
   `SpliceKeeps` says when the list stays sorted and apart, `SpliceHas` which pages and which heads
   it has afterwards.  From these `AllocKeeps` and `GiveKeeps`: the free pages
   lose or gain exactly the pages asked for, nr_free counts them, and no flag is
   on a page that is freed.  `StacksAreFound` needs no more than this: two free pages
   next to each other lie in one block, since blocks do not touch.
2. One address space.  `Sound(s, R, U)` says of the record `s` that a function works on: every
   page is free, or held by the address space at one place of it, or in `R`, never two of these;
   those of `U` and the mapped ones have one reference and the free ones none; and `MmOk`:
   where a page is mapped there is a table for it, in an area of the list.  There is one lemma
   for each function, in the order of their calls, and it is stated for a function that may stop the
   kernel anywhere, since any of them may find no page.  `R` is what lets a page be on its way:
   `alloc_page` puts it there, `page_insert` moves it into the address space.
   `MmOk` is needed for `exit_mmap` alone: unmap_range and exit_range only look below the
   areas of mmap_list, so that a page mapped elsewhere would never come back.  `Tidy` says
   that the areas of the list are sorted, apart and in the user part; `mm_map` and
   `insert_vma_struct` keep it or do not let the kernel go on.  Two consequences make
   `StopsAreCrossings`: an insertion fails only if the new area starts in front of one that is there and
   reaches into it (`mm_map` has refused the other case), and the areas of a tidy list
   can be inserted from the last to the first into an empty one, as `dup_mmap` does.
3. Loops.  `Passes` states once that what holds at first, and after each pass if it did
   before it, holds at last (`LoopKeeps`, by the least pass for which it would fail), for a
   function that is a constant of the module; `MemoryProofs` has one instance of it for each
   function that `Memory` repeats.
4. All processes.  `IInv`, the inductive invariant: the record of the allocator and the tables
   of pages have their types, and as long as the kernel runs `WholeOk` holds.  That is
   `ListSound`; that the places of all processes together (`Whole`) have each page once;
   that the free pages are exactly the others, with no reference; that each address space is `MmOk`; and which
   of stack, file table and address space a process has at what stage of its life (`Kernels`).
   `Split` takes one address space out of the whole, with the rest as `R`, and `Join` puts it back
   after an operation.  That is how `ForkKeeps`, `ExitKeeps`, `ExecveKeeps`, `WaitKeeps` and
   `PgfaultKeeps` use part 2.  `EveryPageHasOneUser` alone is not inductive, because
   it does not know that a mapped page lies in an area.

The last part of `DiningSemaphoreProofs` is about `Stride`, for any finite set of processes,
any priorities and words of any even number of values above two: `HeapCorrect` and `OrderKept`.

1. The heap.  `skew_heap_merge` is a loop of `Descend` in the model, and the lemmas say
   what holds between two calls (`CallFinds`): the processes merged so far, `D`, are
   closed upwards up to the root; what hangs below them, and the two heaps the next call
   gets, are trees.  `Forest` allows roots whose parent pointers nobody looks at, because
   the code leaves them stale: the right heap of a process becomes a root when it is passed
   on, and gets its parent when it is linked.  `DescendKeeps` is one call, `HangEnds` the
   end of the recursion, and `MergeKeeps` puts them together with the loop rule of `Passes`;
   that the calls end is a count of `D`.  None of it asks for an order, so that the heap
   stays whole when the comparison is none.  `InsertKeeps` and `RemoveKeeps` follow.
2. `StrideInv` is `HeapHoldsRunnable` with one more fact, that `current` is idleproc or
   runnable: `schedule()` decides by the state alone whether it puts `current` back, and
   a sleeper must not be in the heap when it wakes.
3. The order.  Strides that are less than half of the circle ahead of one word are ordered by
   how far they are from it (`HalfCircle`, `CloseOrders`).  The lemmas of part 1 carry such an order
   along: what is no smaller than its parent stays so.  After a turn the process picked
   is at most BIG_STRIDE ahead of where it was, and where it was is the least, so that
   strides that were close are close again, from the next least (`CloseFrom`).

Model-checked only is liveness, as the provers have no way to treat fairness here.

## What is not modelled

* Swapping.  After check_swap at boot no address space is ever swapped.
* The contents and permissions of pages and of files, the reading of ELF headers and
  of path strings, the list of the three devices, reading a directory: data that
  decides nothing here but which of the modelled ways a call takes.
* Power cuts.  Nothing in the file system promises anything after one, and it has
  no recovery; an ordinary shutdown and the next boot are in `SfsFile`.
* `kmalloc`, device drivers, the assembly entry, boot, kernel monitor, libraries,
  user programs and build tools: port input and output, formatting, straight-line
  code, or callers of what is modelled.
* `try_down` and `ksize`, which nobody calls.  (`try_down` is `Enter` of `SemLock`
  when it succeeds.)
* p_rpos and p_wpos of stdin are signed and overflow after 2^31 characters.

## Where it stands

All planned modules are written, and every safety invariant and refinement that a run checks is
also a theorem, but the two that the code violates.  What is
left is listed under "What is not modelled".
