# A verification development for Labs-Sistemas-Operativos

The repository holds four operating-system labs. Its core is `lab2`: the xv6
kernel for RISC-V with a semaphore device added to it (`kernel/sem_syscall.c`)
and a program that uses it (`user/pingpong.c`). `lab3` is the same kernel
without semaphores, with another timer interval and two benchmarks; `lab1` is a
small shell, mybash; `lab0` is a set of shell one-liners.

This directory holds TLA+ modules translated from that code, TLC configurations
that check them on small instances, and theorems for every value of the
constants, with proofs that TLAPS checks. `PROJECT.json` is the index: the
components, the runs, a mutation of the code for every property, the source
lines behind every definition, the hazards and the theorems.

All paths below are relative to `src/`; `kernel/` and `user/` stand for
`lab2/kernel/` and `lab2/user/`.

Contents: 1 inventory - 2 the modules - 3 the runs - 4 fairness - 5 the proofs -
6 where code and documentation disagree - 7 abstractions - 8 what is not
modelled - 9 plan - 10 how to run it.


## 1. Inventory

### The parts and how they meet

    user/pingpong.c   user/sh.c, init.c, ...   lab1: mybash, a program of the host
          |  system calls (trampoline.S, trap.c, syscall.c)
    sem_syscall.c   sysproc.c      sysfile.c
          |             |           |      |
          |          proc.c       file.c  pipe.c  console.c -> uart.c
          |  fork exit wait kill    |
          |   vm.c kalloc.c        fs.c       inodes, directories, bitmap
          |                        log.c      groups of calls are atomic
          |                        bio.c      buffers, sleeplocks
          |                        virtio_disk.c <-> disk, interrupts
          +---- proc.c: sleep, wakeup, yield, sched, scheduler ----+
                spinlock.c, swtch.S, timer interrupts, plic.c

Everything that blocks does so through `sleep(chan, lk)` and `wakeup(chan)` of
`proc.c`, and everything shared is protected by a spinlock whose holder has
interrupts off. That is why the process table comes first.

| Component | State | Makes it correct | Hard because |
|---|---|---|---|
| **Semaphores** (`sem_syscall.c`) | `semaphore_array[MAX_SEM]` of value and lock | every call takes effect at one instant on a counter; no sleeper while there are units | test of the value, sleep and wakeup by different CPUs; one unit, several woken; close while others wait; kill wakes a waiter |
| **pingpong** | two semaphores per game, the loops of father and child | strict alternation; games do not share semaphores; nobody hangs | games search one array at the same time; failures half way |
| **Process table** (`proc.c`) | `proc[NPROC]`: state, chan, killed, lock; `cpu[]` | one CPU per kernel stack; no lock across a switch; no lost wakeup; nobody passed over for ever | `p->lock` is acquired by one thread and released by another |
| **Process lifecycle** (`proc.c`) | pid, parent, killed, `wait_lock`, `nextpid` | nobody loses a parent; zombies are reaped; no slot is reused too early; fresh processes are not killed | parent and child exit together; `fork` gives its locks up twice; kill anywhere |
| **Log** (`log.c`) | `log.lh`, outstanding, committing; header and blocks on disk | groups of calls are atomic over crashes; no overflow; waiters are woken | a crash before any disk write, recovery included; concurrent reservations; absorption; recycled buffers |
| **Buffer cache** (`bio.c`, `sleeplock.c`) | list of NBUF buffers, refcnt, lock, valid | one buffer per block and one holder; nobody waits for what is there | two scans under one lock; sleeps end early when somebody is killed |
| **virtio disk** (`virtio_disk.c`) | descriptors, avail and used rings | every request completes once, with its own data; descriptors do not leak | the device answers in any order; indices wrap |
| **Pipes** (`pipe.c`) | ring of PIPESIZE, nread, nwrite, open ends | a stream of bytes; nobody asleep without a reason; the page freed once | several readers and writers, ends that close, kills between two bytes, counters that wrap |
| **File table** (`file.c`, `sysfile.c`) | `ftable`, descriptors | exact reference counts, whatever fails half way | fork and exit copy and close descriptors while others close theirs; `fileclose` acts after it gives the lock up |
| **Inodes, directories** (`fs.c`, `sysfile.c`) | inode table, inodes and entries on disk | references, `nlink` and names agree; an inode is freed when it must be | the last `iput` truncates after releasing the table; opposing calls on one name |
| **Blocks of files** (`fs.c`) | bitmap, `addrs[]`, size | a block is free or has one owner; no holes | failures of `balloc` half way; `itrunc` beside `writei` |
| **Traps, harts** (`trap.c`, `trampoline.S`, `kernelvec.S`, `swtch.S`, `main.c`, `plic.c`) | trapframe, registers, `stvec`, `ticks` | a program goes on as if there had been no trap; one handler per interrupt | the CPU changes under the thread; interrupts at any instruction |
| **Clock** (`sys_sleep`) | ticks | no sleep too short or too long | ticks wrap; kill |
| **Spinlocks** (`spinlock.c`) | locked, cpu, `noff`, `intena` | mutual exclusion; interrupts restored when the last lock goes | nesting, interrupt handlers, context switches with a lock held |
| **Console, UART** (`console.c`, `uart.c`) | input ring r/w/e, output ring | whole lines in order, nothing left behind | handlers and sleepers; echo beside buffered output |
| **Memory, exec** (`kalloc.c`, `vm.c`, `exec.c`) | free list, page tables, sizes | every page is free or somebody's; a failure gives everything back | any `kalloc()` may fail |
| **printf, panic** (`printf.c`) | `pr.lock`, `panicked` | whole lines; a panic is said and stops every CPU | `panic()` switches the lock off |
| **mybash** (`lab1/execute.c`, `parsing.c`, `command.c`) | pipeline, descriptors, children, lists of strings | commands of a pipeline are connected to their neighbours; foreground children waited for; each string has one owner | failing `fork`, a descriptor kept too long |
| **xv6 programs** (`sh.c`, `init.c`, `grep.c`, `umalloc.c`, `printf.c`, `ulib.c`) | parse trees, descriptors, heap ring | the grammar; each command its files; the heap is its blocks | recursion over processes; wrap of the free ring |
| **mkfs** (`lab2/mkfs/mkfs.c`) | the image | the kernel reads what was written | indirect blocks, partial blocks |

Without a model, and listed in `PROJECT.json` with the reason: the lexer of
mybash (object code only), the obfuscated driver of lab1, lab0, the tests and
graders, and of the user programs those that are loops around system calls.

The hazards of this code are listed in `PROJECT.json` at the line where each
bites, with the properties that would catch it going wrong, or why none does.


## 2. The modules

An operator whose comment begins with "Mutant" is not part of a specification: it
is the form a definition would have under a plausible bug, and `PROJECT.json` says
which property must then fail.

### Proc, Semaphore, CountingSemaphores: the semaphores on the process table

`Proc` is the process table. A CPU executes the kernel thread of `p` while
`cpu[c] = p`, and `scheduler()`'s own loop while `cpu[c] = NoProc`. `p->lock`
is `plock[p]`, with its holder: a CPU. The module gives one action per lock
region of `scheduler`, `sched`/`swtch`, `yield`, `sleep`, `wakeup` and `kill`
and the end of `exit`; a client EXTENDS it and adds its own actions. What makes
the code hard is in the split:

- `SchedPick` switches to `p` with `p->lock` held, `YieldReturn`/`SleepExit`
  release it in `p`'s thread; `Swtch` and `SchedReturn` hand it back.
- `sleep` is four steps (`SleepLock`, `SleepRelease`, `SleepEnter`, `SleepExit`):
  `p->lock` is taken *before* the condition lock is released.
- `wakeup` is one step per slot, and waits for a slot whose lock is held.

`Semaphore` EXTENDS `Proc` with `sem_syscall.c`. User programs are arbitrary: a
process in user space makes any call of `Requests`, kills a process of `Victims`,
is preempted, or does nothing. `pc` names the places between two acquisitions:

| `pc` | in the code |
|---|---|
| `user`, `ret`, `exit` | user space; the end of `usertrap()`; `exit()` before `p->lock` |
| `acq`, `crit` | before and after the first `acquire(&semaphore_array[sem].lock)` |
| `wake` | in the `wakeup()` of `sem_up()`, lock held, slot `scan[p]` next |
| `test` | the condition of `while (value == 0)` in `sem_down()` |
| `sleep1`..`woken`, `reacq` | inside `sleep()`, up to its final `acquire` |
| `oob` | past the range check with an index outside the array |

Note the order in `sem_up`: the sleepers are woken first and the value is
incremented after, with the lock held throughout, so that a woken process cannot
test the value in between.

`CountingSemaphores` is the promise: a counter per semaphore, and calls that
take effect at one instant between invocation and return. `Semaphore` is shown
to implement it with the identity mapping on `value`, `call` and `ret`: each call
has its effect in the step that releases the lock with a result (`Finish`), and
invocation and return are the abstract ones; everything else stutters.

### Spinlock, Scheduler, Traps, Harts: below the process table

`Spinlock` is `spinlock.c` with `push_off`/`pop_off`, interrupts between any two
steps, handlers that take locks, and `sched()`, which saves `intena` over a switch
made with one lock held. The first run of a thread comes out in `forkret()`
(`FirstRun`), which restores nothing; its release goes on to `usertrapret()`, and
the program has interrupts on whatever the scheduler had. Elsewhere a spinlock is a variable with its holder.
`Scheduler` keeps only what the order of `scheduler()`'s scan depends on: `slot`,
the entry each CPU looks at next, and who is runnable. `Traps` follows a program's
registers through `uservec`, `usertrap`, `usertrapret`, `userret`, `kernelvec`,
`swtch` and over from one CPU to another; a value is the thread it belongs to.
`Harts` is the boot of `main()`, `devintr()`, the PLIC and the timer's path through
machine mode (`timervec`).

### PingPong

The whole of `user/pingpong.c`, several games at once, on the semaphores that
`CountingSemaphores` promises (INSTANCE, with its state and actions). `at` is
the statement a process executes; a system call is requested, takes effect (at a
moment of the kernel's choosing) and returns. `get_empty_sem`, the failure exits
that leave a semaphore open, `fork`, both loops, `wait` and the two closes are
actions. Games do close semaphores, but only those nobody is left to use, which is
the case in which the kernel keeps the promise.

### Lifecycle

`fork`, `exit`, `wait`, `kill`, `reparent`, `freeproc` and `userinit` of
`proc.c`, at the granularity of `wait_lock`. `fork` is three steps with other
processes in between (slot taken and USED; parent set under `wait_lock`;
RUNNABLE). `exit` is six, among them the two that matter most: it sets ZOMBIE,
releases `wait_lock`, and only then leaves its kernel stack; the p->lock it still
holds (`Leaving`) is what keeps `wait()` from freeing it. Fields that
`allocproc()` does not set keep what `freeproc()` left there.

### Log, AtomicDisk

`log.c` on a buffer cache that reads, writes, pins and recycles. Memory (`cache`,
`pin`, `lh`, `outstanding`, `committing`, every process) and disk (`home`,
`logb`, `head`) are apart: `Crash` resets the former and may happen at any
moment, recovery included. `begin_op`, `log_write` and `end_op` are one critical
section each; a commit makes one disk write per step (`write_log`, `write_head`,
`install_trans`, `clear`), while other processes go on calling. `install_trans`
serves recovery too, where it unpins nothing.

`AtomicDisk` is the promise: what is found after a crash (`durable`), what is
read now (`current`), who is between `begin_op` and `end_op` (`active`).
`durable` becomes `current` at one instant when nobody is active; a crash sets
`current` back to `durable`. The mapping: `durable` is what recovery would make
of the disk as it is now (`Recovered`: the logged blocks over the home blocks),
`current` what a read returns, `active` the processes inside a call. Then
`write_head` is Commit, `begin_op` is Begin, `end_op` (and a panic) is End,
`log_write` is Write, `Crash` is Crash; installation, recovery and buffer traffic
stutter.


### BufferCache, VirtioDisk, BlockStore: the disk

`VirtioDisk` is the driver and the device: the descriptors, the two rings with
indices that wrap, requests that the device finishes in any order, and an
interrupt handler that the device does not wait for. `BufferCache` EXTENDS it
with `bio.c` and the sleeplocks: `bget`'s two scans, least recently used first,
`bread`, `bwrite`, `brelse`, `bpin` and `bunpin`, by callers that follow the rule
of the file system (what was changed is written or pinned before `brelse`). A
sleep may end early because of `kill()`. `BlockStore` is the promise: a block has
one holder at a time, who finds what the last one left. The driver is also
checked alone (`AloneInit`, `AloneNext`, in `MCParts`), with more requests than
there are descriptors.

### Files, Pipe, ByteStreams: open files and pipes

`Pipe` is `pipe.c`: the look at `p->killed`, the `sleep()` and every byte of
`pipewrite()` are steps of their own, `nread` and `nwrite` wrap. `Files` EXTENDS
it with `file.c` and the calls of `sysfile.c` on descriptors, for files that are
pipes, and with what `fork()` and `exit()` do to them. What a call has got and
has not put into a table yet is in its `hand`; where it stands is `at`.
`fileclose()` takes the last reference away under `ftable.lock` and calls
`pipeclose()` in a later step (`last`). `ByteStreams` is the promise: a queue of
bytes per pipe, and the end of file only when it is empty and nobody is left to
write. `MCFiles` is the instance.

### Inodes, Blocks: the file system

`Inodes` is the inode table, directories, and `open`, `link`, `unlink`, `mkdir`
and `chdir`, with a step for what a process does while it holds inode locks, up
to the next `ilock()` or `iput()`. `namex()` walks one element per step; the last
`iput()` truncates after it has given the table's lock up. `Blocks` is `balloc`,
`bfree`, `bmap`, `itrunc`, `readi`, `writei` and the loop of `filewrite()`, with
processes that share an offset; a step of a call takes, gives back or fills one
block. `MCInodes` is the instance of the first.

### Devices: Console, LineInput, Uart, Clock

`Console` is line editing, `consoleintr()` and `consoleread()`; `LineInput` is
what a terminal promises, and `Console` implements it. `Uart` is the transmit ring
beside the echo that bypasses it; looking at LSR and writing THR are two steps.
What is on its way, in the FIFO, in `uartstart()` or in the ring (`OnItsWay`), is a
queue (`OutputRight`). `Clock` is `clockintr()` and `sys_sleep()` with ticks that
wrap; `since` counts the ticks since the call.

### Memory and results: Memory, Kalloc, Strings, ExecArgs, Printf, Format

`Kalloc` is the free list, linked through pages that their users overwrite.
`Memory` is page tables by level, `uvmalloc`, `uvmcopy`, `uvmfree` and the calls
`fork`, `exec`, `sbrk`, `exit` and `wait`, where any `kalloc()` may fail.
`Strings` is bytes: `copyin`, `copyout` and `copyinstr` across pages, `memmove`,
`skipelem`. `ExecArgs` is the argument stack of `exec()`. `Printf` is `pr.lock`
and `panic()` on several CPUs, `Format` what both `printf()`s and `atoi()`
compute. These are checked against definitions of the result that do not follow
the code.

### Programs: Shell, Command, Sh, Grep, Malloc, Mkfs

`Shell` is mybash's main loop, parser, builtins and `execute_pipeline()`;
`Command` the ownership of the strings, commands and queues of `command.c`.
`Sh` is the shell of xv6 under `init`: parser, tree of processes, descriptors.
`Grep`, `Malloc` and `Mkfs` are what their names say.

### Instances and proofs

`MCSemaphore`, `MCFiles`, `MCInodes` define sets that a configuration cannot
express. `MCParts` puts parts that share no state side by side: each behaviour is
one of a part, with 23 instances of 22 modules (`Traps` is there for one CPU and
for two). Spinlock, PingPong, Scheduler, Printf, Kalloc, Console, Uart, Clock and
Blocks, about which theorems are proved, keep their own variables; the other parts
take turns with x1, x2, ....

The theorems are in `SemaphoreProof`, `LogProof`, `LifecycleProof`, `PartsProof`
(Spinlock, Scheduler, PingPong, Printf, Kalloc, Console, Uart and Clock),
`DiskProof` (BufferCache and VirtioDisk), `FilesProof` (Pipe and Files) and
`InodesProof` (Inodes and Blocks).


## 3. The runs

| Run | Instance | Checks | Result |
|---|---|---|---|
| `sem_core` | 3 processes, 2 CPUs, 2 semaphores within 1: up and down of one, open and close of the other, kill, preemption | `TypeOK`, `OneCPU`, `SchedLocks`, `NoLostWakeup`, `Refines` | holds |
| `sem_live` | 2 processes, 2 CPUs, preemption in user space, at the return and in `exit()`, fair | `KillTakesEffect`, `UnitsTaken` | holds |
| `sem_closed` | 3 processes, close of a semaphore in use | `ClosedNotUsed` | violated, see 6 |
| `life_live` | 3 slots, pids to 6, kill of 2, 3, 4, fair | `Family`, `StackInUse`, `BornAlive`, `OrphansReaped`, `WaitReturns` | holds, 33,057 states |
| `life_kill0` | 3 slots, kill(0) | `BornAlive` | violated, see 6 |
| `log_atomic` | 2 processes, 3 blocks, 2 values, MAXOPBLOCKS 2, log of 4, crashes, fair | `NoPanic`, `NothingToLose`, `CrashAtomic`, `SleepersWoken` | holds, 435,392 states |
| `disk` | 2 processes, 3 blocks, 2 values, 2 buffers, 6 descriptors, kill | `DriverRight`, `Exclusive`, `RefsExact`, `NobodyForgotten`, `Implements` | holds, 751,496 states |
| `files` | a shell and two children, 1 page, PIPESIZE 1, counters modulo 2, 2 files, 2 descriptors | `SleepersJustified`, `CountsExact`, `Implements` | holds, 967,456 states |
| `fs` | 2 processes, 3 inodes, 2 names, links to 3 | `NeverPanics`, `CountsRight`, `FreedRight`, `IputNeverWaits` | holds |
| `fs_dotdot` | 1 process, directories in directories | `NeverPanics` | violated, see 6 |
| `shell_abort` | mybash, 3 commands | `NeverAborts` | violated, see 6 |
| `parts` | 23 small instances side by side | `OutputRight`, `SleepsExactly`, `ConsoleRight`, `BlocksRight`, `ListRight`, `ShellsRight`, `TrapsRight`, `PrintfRight`, `ResultsRight`, `SpinlocksRight`, `GamesRight`, `NobodyOvertaken` | holds, 797,135 states |

CHECK_DEADLOCK is FALSE only in the runs of semaphores, lifecycle, disk and
files: programs may all have exited, or all wait for a semaphore nobody will
raise, or for bytes nobody will write. The other runs check deadlock. In `parts`
the states where a part is over step to themselves: all games over, a panic that
has stopped every CPU, the bound of `Command`.

What the properties say:

- `NoLostWakeup`: nobody sleeps in `sem_down()` on a semaphore that has units.
  `Refines`: the calls are atomic. `OneCPU`: a thread that has set its state and
  not yet switched away is not picked up by another CPU. `SchedLocks`: the
  panics of `sched()` do not happen.
- `KillTakesEffect`: a killed process exits, unless it waits for a semaphore that
  is at 0 (`sem_down()` never looks at `p->killed`). `UnitsTaken`: units that
  somebody waits for are taken.
- `Family`: every process but init has a living parent, or is the child of a
  fork that is about to name itself. `StackInUse`: nobody frees a process that is
  still on its kernel stack. `BornAlive`: slots are taken with `killed` clear.
  `OrphansReaped`, `WaitReturns`: zombies of init go away, and `wait()` returns
  when there is something to return.
- `NoPanic`: reservations suffice. `NothingToLose`: an idle log is empty and the
  disk is up to date. `CrashAtomic`: the refinement of `AtomicDisk`.
  `SleepersWoken`: `begin_op` is not slept through.
- `DriverRight`: every descriptor is free or in the chain of one request, and a
  request is in the rings exactly once. `Exclusive`: a block has one buffer, and
  its holder does not share it with the device. `RefsExact`: `refcnt` is the
  number of those who use the buffer. `NobodyForgotten`: nobody sleeps for a
  buffer that is free, for descriptors that are there, or for an answer that has
  been handled. `Implements`: the refinement of `BlockStore`.
- `SleepersJustified`: who sleeps in `piperead()` finds the pipe empty and a
  writer left, who sleeps in `pipewrite()` finds it full and a reader left; the
  exception the code has is stated in it (bytes that a killed writer left without
  a `wakeup()`, `pipe.c:84-86`). `CountsExact`: `f->ref` is the number of
  descriptors and hands, and a page is in use while an end is. `Implements`: the
  refinement of `ByteStreams`.
- `NeverPanics`: `ilock`'s and `iput`'s assertions. `CountsRight`: `ref`, `nlink`
  and the names agree. `FreedRight`: no name leads to a free inode, and an inode
  without names and users is free. `IputNeverWaits`: the `acquiresleep()` of the
  last `iput()` finds the lock free, as its comment says (`fs.c:337`).
- `ConsoleRight`: nobody sleeps in `consoleread()` while there is something to
  read, and the console implements `LineInput`. `OutputRight`: no character is
  left in the UART's ring and all come out in order. `SleepsExactly`: no `sleep()` is
  too short or too long, though ticks wraps.
- `ListRight`: the free list of `kalloc()` ends, has the pages nobody has, and
  no page has two users. `BlocksRight`: every block marked in use is in one
  place of one inode or of its indirect block, and no other is in any, half way
  through `bmap()`, `writei()` and `itrunc()` too; below the size of a file all is
  its own data (`NoHoles`), whoever writes or truncates.
- `ShellsRight`: in mybash neighbours in a pipeline are connected and nobody else
  is, foreground jobs are over at the prompt, each string has one owner; in the
  shell of xv6 the line is parsed as the grammar says, each command has its files,
  `;` waits, and the line ends.
- `TrapsRight`: registers and program counters of programs and kernel threads
  survive traps, switches and moves to another CPU; harts start in order, an
  interrupt has one handler, a tick is counted once; no request of the disk and no
  descriptor is forgotten, with three processes that compete. `PrintfRight`: lines
  are whole, panics are said. `ResultsRight`: sequential code computes its result,
  the image of mkfs is read by the kernel's `bmap()` as it was written, and every
  page of a space and word of a heap is free or somebody's, whatever fails.
- `SpinlocksRight`, `GamesRight`, `NobodyOvertaken`: see section 5, where they are
  proved.

Every bound and why it is enough:

- **NPROC, CPUs.** A lost wakeup needs a sleeper and a waker on two CPUs; the
  third process of `sem_core` competes for the unit or kills. Fairness is checked
  with two: more processes only add symmetric copies of the same race.
- **MaxValue** bounds the counters. The code distinguishes -1, 0 and the rest.
- **Preempt** is the set of places where the timer may strike: user space, the
  return from a call and `exit()` in `sem_live`, user space and `exit()` in
  `sem_core`. Two places are left out where a thread holds no lock and interrupts
  are on for a moment: before the first `acquire()` of a call (`acq`) and before
  `sleep()` takes the semaphore's lock back (`reacq`); the first is as if it were
  preempted in user space, the second as if it were scheduled later after its
  wakeup. From there on `acquire()` spins with interrupts off.
- **Victims** in `sem_*`: processes are alike but for the order of the table; slot
  1 is the one that `wakeup()` visits first.
- **MaxPid, KillPids, Waiters**: with 3 slots and pids to 6 a grandchild of init
  loses its parent and slots are used again; kills name all but init (killing init
  panics the kernel by design); init and one more process wait. With 3 slots the
  `wakeup()` of init in `reparent()` makes no difference, because the exiting
  parent wakes init as well.
- **Blocks, Data, MAXOPBLOCKS, OpBlocks**: three blocks fill the log; a second
  process is refused because of space and because of a commit; blocks are
  absorbed and recycled; two values tell lost and torn writes apart.
- **NBUF, NUM, IdxMod, MaxPins**: three blocks in two buffers are recycled; six
  descriptors are two chains, and the rings wrap. That there are not enough
  descriptors happens in `parts`, with three requests.
- **PIPESIZE 1, UintMod 2**: a pipe is full after a byte and the counters wrap
  after two; a write of two bytes is interrupted by sleep and kill. **NFILE,
  NOFILE 2**: every table is full after one `pipe()`, so that every failure
  happens. **MaxKilled 1**, and kills reach calls on pipes only: `kill()` elsewhere
  is an `exit()` between two calls, which is there anyway.
- **NINODES 3, two names, Shallow paths, MaxLinks 3**: two processes compete for
  one inode besides the root and another; one of them makes calls on files, the other
  on directories.
- **Games, MAX_SEM, Rounds** in `parts`: two games want four semaphores and there
  are three, so that one fails at its first or second; two rounds have a first
  and a last.
- The instances of `MCParts` are chosen so that every limit is met: rings fill and
  wrap, memory runs out, lines do not fit, every sequence of three tokens is typed.
  The FIFO of `Uart` has depth 2, for one CPU that echoes beside `uartstart()`; ticks
  of `Clock` wrap after 4, and sleeps are of 0, 2 and -1 (which is 3) of them.

Symmetry: of the CPUs in `sem_core` and `sem_closed`, of processes, blocks and
values in `disk`, of the children in `files`. Slots of the process table are not
symmetric (scans go in order), and no run with a liveness property uses symmetry.


## 4. Fairness

- `Semaphore`: strong fairness for the kernel steps, the scheduling and the timer
  of each process, weak for the rest of a context switch. `scheduler()` scans
  the whole table for ever, so a process that is RUNNABLE again and again is
  chosen; `NobodyOvertaken`, proved for every number of CPUs and processes, says
  how soon: no CPU gives itself to one other process twice before. Critical
  sections are finite and run with interrupts off; a spinlock is not granted to
  others for ever (atomic swap on finitely many CPUs; the code has no queue, so
  this is an assumption about the hardware); a timer interrupt stays pending until
  it is taken. Nothing is assumed of user programs.
- `Lifecycle`: strong fairness for the kernel steps of each process, as above,
  and for init's call of `wait()`, which `user/init.c` makes in an endless loop.
- `Log`: weak fairness for `begin_op`, `end_op` and commit steps. A process in the
  kernel keeps running, and a file system call makes finitely many `log_write()`s.
  Nothing is assumed of recovery, crashes or new calls.
- In the other runs nothing is assumed. What must not be waited for in vain is a
  safety property there: a state in which somebody sleeps has the reason
  (`SleepersJustified`, `NobodyForgotten`, `ConsoleRight`, `OutputRight`,
  `SleepsExactly`), and the runs that check deadlock show that nothing stops half way.


## 5. The proofs

Every leaf is checked; nothing is assumed but the constants' assumptions and, for
some theorems, conditions that are named here. The theorems hold for every number
of processes, CPUs, semaphores, blocks, buffers, files, pages and values.

Each safety theorem follows from an inductive invariant. Two arguments return in
all of them: *who holds a lock is at a place between its acquire and its
release*, which makes the steps of others harmless; and *what is counted is a
set*, so that a counter is right because a set gains or loses one element.

**SemaphoreProof** - programs are arbitrary. `LockInv` is four parts besides
types: `CpuInv` (a CPU runs `p` exactly while it is RUNNING or on its way out with
`p->lock`), `ProcLockInv` (who may hold `p->lock`, and at which labels),
`SemLockInv` (a semaphore's lock is held by the CPU of the thread between acquire
and release, which never loses its CPU there) and `CallInv`. It gives
`TypeCorrect`, `OneCPUAlways` and `SchedLocksAlways`. `OneCPU` alone is not
inductive: that nobody else picks a thread before its switch is over rests on the
lock it holds. `NoLostWakeupAlways` adds `WaitInv` (while anybody is committed to
sleep the value is 0, and `wakeup()` leaves nobody asleep behind its scan), and
needs `NoClose`: no program closes a semaphore. The condition is necessary: close
and reopening with a positive value leaves the old sleepers asleep, in the code
and in the model. `CountingImplemented` is the refinement, under `NoClose` and
`CallersInRange` (`sem_up` and `sem_down` get valid indices, which the code does
not check): `ResultInv` adds when `ret` is set; each action is then an abstract
action or a stutter.

**LogProof** - `LogInv` is types and:

- `CallsInv`: at most `outstanding` processes are inside, one commits and only
  when nobody is inside, recovery runs alone. Without it a `log_write` could fall
  between two disk writes of a commit.
- `StageInv`: what header, log blocks and home blocks hold at each stage of a
  commit and of recovery, that a log names no block twice and fits, and that the
  header on disk is empty outside. Without it one could not say what `Recovered`
  is.
- `BufferInv`: a buffer is pinned exactly from its `log_write` to its
  installation, and only a pinned one may differ from the disk. Without it a
  recycled buffer would lose a write.

From it follow `LogTypeCorrect`, `NothingToLoseAlways` and `CrashAtomicAlways`,
the refinement of `AtomicDisk`, for any OpBlocks and log size; a step that panics
is a legal one there. `NoPanicAlways` adds `RoomInv`: the blocks in the log and
those that the calls in progress may still add fit beside the header. What calls
have written is a set of pairs, which is mapped one to one into calls inside
times `1..OpBlocks`. Its hypothesis `RoomForCalls` is that a call writes fewer than
MAXOPBLOCKS blocks; it is sharp, and holds of every call of xv6 (at most 9 of 10).

**LifecycleProof** - `LifeInv` is types, `StagesRight` (the state of a slot goes with
the place of its thread), `ForksRight` (a fork in progress and its slot belong to
each other), `LockRight`, `ParentsRight`, `ChildlessRight` (nobody is given to a
process that has given its children away) and `InitRight`. It gives `LifeTypeCorrect`, `FamilyAlways` and
`StackInUseAlways` for programs that do not kill init (`1 \notin KillPids`; the
kernel panics when init exits, and nothing is said of what follows).
`StackInUse` rests on who holds `p->lock`, not on the state: a ZOMBIE on its own
stack holds it (`Leaving`) until `sched()`. `Family` needs that `wait_lock` covers
all of `exit()` from `reparent()` to ZOMBIE. `BornAliveAlways` adds `UnusedRight`
(the fields of a free slot), and needs that nobody calls kill(0) either; with it
the property is false (section 6).

**PartsProof** - eight modules.

`Spinlock`, `Scheduler`: any number of CPUs, threads and locks. `SpinInv` is
`SpinTypes`, `Placed` (a thread is on one CPU, or ready, or has not run), `Owning` (`lk->locked`
is exact, and `lk->cpu` names the owner but between the swap and its record, and
from the start of the release on), `Counting` (`noff` is the number of locks the
CPU owns, plus one while it spins) and `Enabling` (interrupts are off while it is
positive, and `intena` is what the context that will call the last `pop_off()`
had, but not in `forkret()`, which calls the last one itself). It gives
`SpinlocksRightAlways`, that no panic of `spinlock.c` and `sched()`
is reached, `holding()` tells the truth and interrupts come back as they were, and
`MutualExclusion`. `SchedInv` is `SchedTypes`, `Owners` (a process is one CPU's,
which has its lock over a switch) and `Waits` (a CPU that has taken `q` while `p`
waits is on its way round the table from `q` to `p`), and gives
`NobodyOvertakenAlways`.

`PingPong`: any number of games, semaphores and rounds. `PingPongInv` is, of every
game, `CallsRight` (what a call in progress may return), `Progress` (rounds and
places of father and child), `Tokens` (the two semaphores and the two processes
hold one token between them) and `Lines` (what is on the console), and `Divided`:
games own disjoint semaphores. `Tokens` is what makes `Lines` inductive. It gives
`GamesRightAlways` and `EvenScoreAlways`.

`Printf`: any number of CPUs, lines of any length. `PrintInv` is types, `LockTold` (who
prints and found locking on has `pr.lock`, and nobody else has it but who panics
or is frozen; `printf()` looks at `pr.locking` once and keeps the answer),
`PanicTold` (locking is off from the start of a panic on, and only the end of one
freezes or stops a CPU) and `LateTold` (after it a CPU puts at most the character
it had checked for). It gives `PrintfRightAlways`.

`Kalloc`: any number of CPUs and any finite set of pages, whose users write what
they like into them. In `KallocInv` a page has a user, or is in the hand of one CPU on
its way to or from the list, or is on the list: there is a sequence `s` without
repetition that the words of its pages spell (`ListIs(s)`), and its pages
are the rest. `kfree()` puts a page in front of `s`, `kalloc()` takes the first; a
user's write is to a page that is not in `s`. That `s` stands still
while a CPU has read the head is `Locked`. It gives `ListRightAlways`.

`Console`: any number of readers, any ring. `ConsInv` is types, `IndicesRight` (`r`,
`w`, `e` in this order and at most INPUT_BUF_SIZE apart, on indices that wrap),
`EditOpen` (what is being edited ends no line) and, of every reader, that who
is about to sleep has the lock (`DozeRight`), that sleepers have nothing to read
and that who reads on is not past the end of a line (`PartRight`). The ring is read as
the text between two indices; lemmas about `%` and about cells say that a character
more, one less, and `w` moving up to `e` are appending, dropping and joining texts.
With them each step of `Console` is a step of `LineInput` or a stutter:
`ConsoleRightAlways`. It needs that the range of the indices is a multiple of the
size of the ring (2^32 and 128 in the code), and that what is called a plain
character is none of "\r", "\n" and ^D.

`Uart`: any number of writers, CPUs that echo or print, and slots of the ring.
`UartInv` is types, `WaitingRight` (the ring holds no more characters than it has
slots), `SomeRoom` (the FIFO has room for what is in it and for all who have found
it idle and not written yet), `HandRight`, and what `OutputRight` says of the moment:
one character of ours is in the UART at most (`OneOfOurs`), none while another is in
`uartstart()`'s hand, and while some wait somebody is in `uartstart()` or an
interrupt is to come. `SomeRoom` is why nothing is dropped, though LSR is read
before THR is written and echoes hold no lock: who has found the FIFO idle is one of
the CPUs, each with one character, and they are fewer than the FIFO is deep (NCPU
is 8, the FIFO of a 16550 has 16). With it each step leaves what is on its way as it
is, takes the first away or adds one at the end: `OutputRightAlways`. It needs that
the range of `uart_tx_w` is a multiple of the size of the ring (2^64 and 32).

`Clock`: any number of processes and arguments of `sleep()`. `ClockInv` is types,
`Told` (`ticks - ticks0`, as a uint, is the number of ticks since the call), `Yet` (who
is about to sleep, or sleeps, has ticks to wait for) and that nobody returned too
early. It gives `SleepsExactlyAlways`. `Told` holds as long as nobody in `sys_sleep()` is kept
from looking at ticks for all of their range, 2^32 of them, which the guard of
`clockintr` states (`since[p] < TickMod - 1`).

**DiskProof** - `CacheInv` is `CacheTypes`, `Referring` (who is between `bget` and
`brelse` refers to the buffer of his block), `RefsExact`, `OneBuffer` (a block
has one buffer) and `Locking` (a sleeplock's holder is at a place where he has
it). `OneBuffer` needs that both scans of `bget` are one critical section. It
gives `RefsExactAlways` and `OneHolderAlways`; `NobodyForgottenAlways` adds
`Waiting`, in which a sleep that `kill()` ends early is one more place to be.

`DiskInv` is `CacheInv`, `DriverInv` and `DataInv`. It holds for any number of
processes, blocks, buffers and descriptors (three or more, which one request
takes), and for any range of the indices that is a multiple of `NUM` (2^16 and 8 in
the code): without that a slot would change its place when an index wraps. The
lemmas about `%` and about `Off(x, y, n)`, the distance from x to y modulo n, stand
in a section of their own; `RingAppend` and `RingPop` say what one entry more and one
less do to the set of entries of a ring. The constant `None` is assumed to be no
request, besides no process, block, value or number, so that an empty slot of
`info`, `req` or a ring can be told.

- `DriverInv`: `Chains` (a request has three descriptors of its own, the others are
  free), `Requests` (each is that of one process in `virtio_disk_rw()` and says
  what that process asked), `Rings` (no ring holds more than NUM entries, nor one
  twice) and `Places` (a request the driver waits for is in the avail ring, with
  the device or in the used ring, and a used ring that is not empty is announced).
  That the avail ring has room follows from the chains: three descriptors a
  request, so fewer requests than slots. It gives `DriverRightAlways`.
- `DataInv`: `Callers` (`write` is what `valid` was at the call), `Clean` (a valid
  buffer that nobody has locked or pinned is as on the disk) and `CarriedOut` (what
  is no longer with the device has been done). `ExclusiveAlways` needs
  that the process whose request is under way sleeps with the buffer's lock.

`BlocksImplemented` is the refinement of `BlockStore`. A block is what its valid
buffer holds, and what the disk holds when there is none; a process has it
between `bread()` and `brelse()`. `bget()` recycling a buffer is a stutter because of
`Clean`, the device answering because a buffer under way is valid only when it is
being written, and the return of a read is the step that takes the block because of
`CarriedOut`.

**FilesProof** - `FilesInv` is types and:

- `Handling`: what a call has in hand at which place, and that what `sys_pipe()`
  has allocated nobody else refers to until it is in the table.
- `Counted`: `f->ref` is the number of descriptors and hands that hold `f`.
- `OneEnd`: each end of a pipe is one file, or one `pipeclose()` still to come
  after a `fileclose()`, never both. `OpenRight`: `readopen` and `writeopen` say
  whether there is one, and the page is in use while either is. Together they are
  why a page is freed once.
- `InCalls`: who is in a call on a pipe has its end among his descriptors, so that
  the page stays in use; and where the holder of `pi->lock` is.
- `Asleep`: the reason of each sleep, as a writer under way leaves it (bytes put
  and not announced, `Unsaid`) and as a killed one left it (`cut`).

It gives `CountsExactAlways` and `SleepersJustifiedAlways`. The number of unread
bytes is between 0 and PIPESIZE at every step, which is part of the types; since
the counters wrap, this needs that `UintMod` is a multiple of PIPESIZE (2^32 and
512 in the code).

`StreamsImplemented` is the refinement of `ByteStreams`, from `FilesInv` and the type
of the ring. A pipe that is in use maps to the sequence `Run(data, nread, Unread)`;
`RunAppend` and `RunDrop` say that a byte more at `nwrite` appends to it and that
`nread` going on drops from its front, also where the index or the counter wraps.
An end of a pipe is open in `ByteStreams` as long as a file stands for it, so that the
last `fileclose()` of an end closes it and `pipeclose()` of the second end, later,
discards what is left; that a reader is told of the end only without writers
rests on `OpenRight`.

**InodesProof** - two modules.

`Inodes`: programs make any calls that are modelled, on any paths. `RefInv`
is types and:

- `Stages`: what a call has in hand at which place, and what it is about to
  `iput()`.
- `Holders`: who holds an inode's lock between two steps is the call that found it,
  at a place before its `iunlockput()`.
- `RefsExact`: `ref` is the number of current directories, open files, and
  references in the hands of calls. A step of p leaves what others hold (`Step`, `Own`,
  `Quiet`), so the count changes by what p gains or gives up (`Mine`, `Rest`), and
  that is one reference for every `ref++` and `ref--`.

It gives `RefAlways`, and `IputNeverWaitsAlways`: somebody else with the lock would
have a reference of his own, so that `ref` would not be 1.

`NameInv` adds, as long as no path has a "..":

- `Used`, `Freed`, `Kept`: an inode in use is not free, a free one has no links, and
  one without links has a user or was not yet linked by the `create()` that made it.
- `FreshOf`: what `create()` has allocated nobody else can reach; `RemovingOf`: the
  entry that `unlink()` has found is there until it is cleared, since the directory is
  locked; `Leaving`: what `iput()` is freeing has no other user and no link.
- `Dirs` (what is walked is a directory, and a file has no entries), `LinksRight` and
  `NoDangling`. `LinksRight` counts entries of all directories, so each step needs
  how one entry more or less changes the sets `NamesOf` and `Subdirs` count.

`CountsRightAlways`, `FreedRightAlways` and `NeverPanicsAlways` follow, with the
hypothesis `PlainPaths`. It is necessary: with ".." the parent of a directory can be
reached after it was freed, which is the third disagreement of section 6. The
assumptions on constants are finite sets of processes and names, a `None` that is
neither process nor inode, paths of at least one element, and calls among those
modelled.

`Blocks`: any number of processes, inodes and blocks, any NDIRECT, NINDIRECT and
BSIZE. `BlockInv` is types and:

- `InodeLocked`, `InCall`: who has an inode's lock is in `writei()` or `itrunc()`
  with it; how far a call has come, and that a `writei()` begins at or below the
  size and ends below the largest.
- `Exact`: the cells for numbers (`Numbers`: those of the inode, then those of the
  indirect block, of which `itrunc()` has given back the first `Gone`) hold each
  block in use once and no other. `ExactPut` and `ExactClear` say what a number
  more and one less do; a step of `balloc()` or `bfree()` is one of the two.
- `ListsNumbers`: an indirect block has numbers in it and no data. It needs
  `Exact`: what `either_copyin()` fills is not the indirect block of any file.
- `FilledRight`: each file is its own data up to `Reach`, which is its size, and
  during a `writei()` also the part that is written already. The size alone is
  not inductive, since `writei()` sets it at its end.

It gives `BlocksRightAlways`: the places and the bitmap are in bijection, and
`Reach` is never below the size while nobody truncates. `BlocksAssumption` is that
an indirect block has room for NINDIRECT numbers, that a transaction writes a block
at least, and that the calls modelled are of processes on inodes.

**Only model-checked.** All liveness, which is out of the prover's reach;
and the parts of `MCParts` but for the nine with variables of their own. What
`Strings`, `Format`, `Grep` and the like compute is induction over data, which the
provers cannot do; TLC compares them with a reference definition over all inputs
of a bound.


## 6. Where code and documentation disagree

1. **A closed semaphore is used** (`sem_closed`, `kernel/sem_syscall.c:119`). The
   list of properties in `grade-lab2:60` says that closed semaphores cannot be
   used. `sem_down()` looks for EMPTY_SEM once, before it sleeps; a process that
   is woken and finds the semaphore closed decrements it to -2 and returns
   success. With -2 it cannot be opened again.
2. **kill(0) kills the unborn** (`life_kill0`, `kernel/proc.c:592`). Free slots
   have pid 0; `kill(0)` marks the first of them, and the next process made there
   dies at its first trap.
3. **".." of a removed directory panics the kernel** (`fs_dotdot`,
   `kernel/fs.c:314`). Removing a directory takes back the link its ".." is, and
   leaves the entry; who stands in it can still follow it when the parent is gone.
4. **mybash is aborted by a line with two errors** (`shell_abort`,
   `lab1/parsing.c:91`), such as `ls > | wc`: `parse_pipeline()` destroys the
   pipeline twice.

Noticed while reading, without a run:

- `sem_open(MAX_SEM, v)` passes `sem > MAX_SEM` (`kernel/sem_syscall.c:42`, and
  `:67` for close) and reaches one entry past the array; `sem_up` and `sem_down`
  check no range. `oob` in `Semaphore` is that place.
- The log holds LOGSIZE - 1 blocks, because `mkfs.c:25` counts the header in;
  `begin_op()` reserves against LOGSIZE. Calls that wrote all of MAXOPBLOCKS would
  panic; those of today write fewer.
- `pipeline_destroy()` (`lab1/command.c:220`) frees the elements and not the
  queue, though `tests/test_pipeline.c:301` says "sin leaks ni doble frees";
  `parse_pipeline()` reads one command more than it pushes and drops it.
- `execute.c`: a `fork()` that fails in the middle of a pipeline keeps its pipes
  (129-133), the result of `pipe()` is not looked at (123), SIGCHLD is ignored for
  good after a background command (104-106).
- A killed writer returns from a pipe without a `wakeup()` for the bytes it has
  put (`pipe.c:84-86`): readers sleep beside them until somebody else writes or
  closes.
- Between the look at `p->killed` and the `sleep()` of `wait()`, `piperead()` and
  `pipewrite()` a `kill()` is not noticed until somebody wakes the process.
- A timer interrupt that comes during `clockintr()` on hart 0 is lost
  (`trap.c:208-214`).
- `writei()` whose `either_copyin()` fails leaves the buffer changed and not
  logged (`fs.c:522`). `create()` in a removed directory leaves an inode without
  a name. `mkfs.c:166` rounds the root's size up by a block too many when it is a
  multiple of a block.
- `%l` of the user's `printf()` prints an int, `%x` of the kernel's is signed; a
  line of 1023 characters and more ends grep without a word.


## 7. Abstractions

- A lock region is one step when its body touches only what the lock protects;
  spinning is waiting for the guard. Interrupts off is the guard of `Timer`.
- `Lifecycle`, `Log`, `BufferCache` and `Pipe` take `sleep` as one step from the
  test under the lock to SLEEPING, which is what `Proc` with `NoLostWakeup`
  shows. `Lifecycle` gives every process a CPU.
- In `Log` the time a buffer is held is one step: the sleeplock excludes others.
  A block is written atomically: the used part of the header is in one sector of
  the disk. A panic stops only the process that panics; `NoPanic` is about it.
- In `kill()` the slots before the victim are locked and left alone, so the visit
  to the victim is the whole effect. In `Pipe` kills reach calls only.
- Memory contents, page table bits, names, formatting and argument fetching are
  left out, but where a module is about them. Strings are addresses in `Command`,
  and what is freed there is gone.
- init is not killed and does not exit in `Lifecycle`: `kill(1)` panics the
  kernel by design.
- `Inodes`: a dinode and its valid copy are one, as `Log` allows; failures (no
  space, no inode) release the directory before the point where the code does.
  "iget: no inodes" is left out. A crash with an unlinked file open loses its
  inode, in the code too; crashes are `Log`'s subject only.
- `Blocks`, `Memory`: a step changes one block number, or is one `kalloc()`. An
  inode has one open file at a time, which is closed and opened again between
  calls. A negative `sbrk()` below the start of memory does nothing, as in the
  code; a negative `sleep()` is a long one (`sysproc.c:60`).
- `Spinlock`: a thread runs for the first time once. The last `pop_off()` of
  `forkret()` and `usertrapret()` are one step: between the two, interrupts may be
  on, and one that comes finds what it finds right after the `sret`. `fsinit()`,
  which the first process calls there, is ordinary kernel code: interrupts are on
  in it, since its CPU's scheduler has run nothing before.
- `Traps`: handlers do not kill, `exec()` or take a machine-mode interrupt inside.
  `Uart`: a character is its number. `Printf`: the message of a panic is one
  line. `Format`: ints of 8 bits, where the negation of the smallest is itself.
- `Sh`: a command's close, dup, close in the child is one step; `cd` is left out.
  Of a pipe inside a pipe the middle shell keeps the read end, and of two
  redirections of one kind the first wins, as in the code.
- `Mkfs` has room on its image, which the program does not check. `ExecArgs` takes
  the bound on the number of strings from `sys_exec()`.


## 8. What is not modelled

The components marked `not_modelled` in `PROJECT.json`, and of those marked
`partly` what their note says. The lexer exists as object code only; the
obfuscated driver is course material without behaviour of its own; lab0 is
one-liners; the benchmarks measure; the graders and tests are read as statements
about the program. Left out of the kernel are device set-up, the on-disk layout
of inodes, `fstat`, `mknod`, ELF headers, the kernel's page table and
`procdump()`.

lab3's kernel and user programs are lab2's, byte for byte, but for `start.c`,
`main.c`, `syscall.c`, `sysproc.c` and what belongs to semaphores; the modules
read for it too, and its lines are not mapped a second time.


## 9. Plan

| Theorems to come | Module | What they need |
|---|---|---|
| owners of pages in `Memory`, exits and pipes of `Shell` | with the parts | variables of their own in `MCParts` |

Models to extend: `fstat`, device files and `mknod` in `Files`; the failure paths
of `Inodes` in the order of the code.


## 10. How to run it

In this directory, with the TLA+ tools and the community modules in reach:

    tlc -workers 2 -config sem_core.cfg MCSemaphore
    tlapm FilesProof.tla

A run takes three minutes or less; the proofs take half an hour or more together,
`PartsProof` and `InodesProof` nine minutes of it each. A run marked "violated" ends
with the counterexample that section 6 describes.
