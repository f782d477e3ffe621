# A TLA+ verification of the cse306 xv6 kernel

The repository is xv6 for the x86 with course extensions: a date call (HW1),
timer calibration and multiprocessor statistics (HW3), a second disk controller
and `lseek` (HW4), and `mmap` (HW5). The default build turns on HW5 and leaves
HW3 and HW4 out. This directory models the kernel and its main programs, above all
where steps of several processes, CPUs and interrupts meet, checks the models
with TLC on small instances, and proves the central properties of the log, the
buffer cache, the process table, the pipes, the memory of processes, the console
and the clock with TLAPS for all instances.

Paths below are relative to `src/xv6/kernel/`, or to `src/xv6/` when they begin
with `user/`.

## 1. Inventory

| Part | State | Operations | What is hard | What must hold |
|---|---|---|---|---|
| Log (`log.c`) | header and data blocks on the disk, `log.lh`, `outstanding`, `committing` | `begin_op`, `log_write`, `end_op`, `commit`, `recover_from_log` | a crash between two writes, group commit, space | a call survives a crash whole or not at all |
| Buffer cache (`bio.c`) | list of buffers, `refcnt`, `B_VALID`, `B_DIRTY`, sleep locks | `bget`, `bread`, `bwrite`, `brelse` | recycling while another CPU looks a block up | one buffer per block, no update lost |
| Disk (`ide.c`, `memide.c`) | `idequeue` | `iderw`, `ideintr` | an interrupt while a request is queued | each request completes once, its own |
| Inodes and directories (`fs.c`, `sysfile.c`) | inode cache, bitmap, directories, links | `iget`, `ilock`, `iput`, `balloc`, `create`, `link`, `unlink` | reference counts, lock order | no inode freed in use, no two calls that wait for each other |
| Processes (`proc.c`) | table, `ptable.lock`, `rrindex`, `c->proc` | `fork`, `exit`, `wait`, `kill`, `sleep`, `wakeup`, `sched` | the lock is handed over across the switch; killed, orphaned and sleeping processes | a process on one CPU and on its own stack; no lost wakeup; no starvation |
| Traps (`trap.c`, `sysproc.c`) | `ticks`, `tickslock` | timer interrupt, exit of the killed, `sys_sleep` | a tick between test and sleep | sleeps end, killed processes exit |
| Pipes (`pipe.c`, `file.c`) | ring, counters, open ends, references | `pipewrite`, `piperead`, `pipeclose`, `filedup`, `fileclose` | full and empty across the wrap of the counters, closing under a sleeper | bytes in order, waiters woken, page freed once |
| Memory (`kalloc.c`, `vm.c`, `exec.c`) | free list, page tables | `kalloc`, `kfree`, `allocuvm`, `copyuvm`, `exec` | failure in the middle | no page twice, none lost |
| Memory maps (`proc.c`, `trap.c`, HW5) | list of regions | `mmap`, `munmap`, page fault | `mmap` never succeeds | see section 7 |
| Console (`console.c`, `uart.c`, `kbd.c`) | input ring with three indices | `consoleintr`, `consoleread` | editing against reading, ring full, `^D` | lines arrive whole and in order |
| Clock (`lapic.c`, `proc.c`, HW1) | clock registers | `cmostime`, `setdate` | an update while reading, BCD | a time read is one the clock showed |
| Locks (`spinlock.c`, `sleeplock.c`) | holder, `ncli`, `intena` | `acquire`, `release`, `acquiresleep`, `releasesleep` | interrupts, sleeping | one holder |
| User side (`user/`) | heap of `umalloc.c`, jobs of `sh.c`, image of `mkfs.c` | `malloc`, `free`, pipelines, `iappend`, `match` | coalescing, closing of ends, indirect blocks | no overlap, pipelines end, the image is readable |
| Start-up, dispatch, helpers | | | straight-line code | |

`PROJECT.json` lists every part with its sources and its status, and, as
`hazards`, the lines where something can go wrong that a test would hardly reach.

How the parts meet: system calls enter through `trap()`; every blocking
operation is `sleep()`/`wakeup()` of `proc.c` with a lock of its own; file-system
calls run between `begin_op()` and `end_op()`; the log writes through the buffer
cache, which pins its blocks with `B_DIRTY`, and the cache through the disk
driver; pipes are files whose last `fileclose()` closes an end; `kill()` only
sets a flag and makes a sleeper runnable, and each sleeping loop tests the flag.

## 2. Layers

| Layer | Modules | Promise |
|---|---|---|
| processes | `Proc` | scheduling, sleep and wakeup, reaping |
| pipes | `Pipe` implements `Fifo` | a bounded queue with two ends |
| disk and cache | `Ide`, `Bio` implement `BlockStore` | a block has one value and one holder |
| log | `Log` implements `AtomicFs` | a call is on the disk whole or not at all |
| contents | `Filedata` implements `ByteFiles` | a file is a sequence of bytes |
| names | `Inode`, `Sysfile` | names, link counts and references agree |
| memory | `Vm`, `Umalloc` | pages and heap have one owner |
| console, clock | `Console` implements `LineInput`; `Clock` | lines in order; whole times |
| programs | `Parse`, `Shell`, `Grep`, `Mkfs`, `Text` | what they compute, and that pipelines end |

Each layer takes what the one below promises: `Log` uses one content per block
and pinned buffers, which `Bio` shows of the cache; `Filedata` uses transactions
that commit together or vanish, which `Log` shows; `Sysfile` uses the same for
the inodes on the disk; `Shell` uses the end of file of a closed pipe, which is
`SleepersLeave` of `Pipe`.

## 3. Modules and the code

`map` in `PROJECT.json` gives the lines of each definition. In every module the
definitions commented as *faulty variants* are the same operations with a
plausible slip. They are not part of the specification: each shows, put in the
place of the real one, that a property notices it.

### Log and AtomicFs

`home`, `dhead` and `dlog` are the disk; `cache` and `dirty` the buffers;
`lh`, `outstanding`, `committing` are the fields of `struct log`. A critical
section of `log.lock` is one step. The tests at the top of `log_write()` come
before the lock and are a step of their own. Each block write of `commit()` and
of recovery is a step. `Crash` may happen before any step: it keeps the disk and
forgets everything else. A block write is atomic because a block is one sector.

Buffers are modelled as the log relies on them: one content per block, pinned
while `B_DIRTY`, otherwise free to be recycled (then the next `bread()` gets
`home`, which is what `CleanBufferOnDisk` makes harmless).

`OPBLOCKS` is how many distinct blocks one call writes. `mkfs.h` sets
`nlog = LOGSIZE`, one of those blocks is the header, and `log_write()` refuses
the last one (`log.c:218`): the reservation of `begin_op()` is sufficient when a
call stays two blocks below `MAXOPBLOCKS`. The largest, a `filewrite()` of
1536 bytes, writes up to 4 data blocks, the inode, the indirect block and the
bitmap: 7 of 10 (with 1000 blocks the bitmap is one block).

`AtomicFs` is the promise: `durable` takes over the whole of `mem` and only when
no call is in progress; a crash falls back to `durable`. The mapping takes `mem`
from the cache and `durable` from what recovery would restore (`Recovered`).

### Proc

The variables are the fields of `struct proc`, `ptable.lock` and `tickslock` with
the CPU that holds them, `cur` for `c->proc`, and for each process `pc` (where it
is outside `sched()`) and `cont` (who called `sched()`). There is no scheduler
thread: `Sched` switches from one process to the next with the lock held, and
the step that releases it belongs to the context that was switched to. `fork()`
is four steps, because it builds the child without the lock: allocation and copy
may fail. `intr` is how far a timer interrupt has got, and `cli` keeps interrupts
off while a CPU spins in `acquire()`.

`left` is `n - (ticks - ticks0)`, which keeps the state finite and does not
depend on where `ticks` wraps. Closing files and dropping the directory in
`exit()` is a stretch without `ptable.lock` that `Proc` passes through in one
control point.

### Pipe and Fifo

`nread` and `nwrite` count modulo `WRAP`, which stands for 2^32; it is a multiple
of `PIPESIZE`, as 2^32 is of 512. The two loops advance a byte per step under
`lock`; `kill()` comes at any time, since it does not take that lock. `ends` is
which ends a process holds; `Fileclose` gives one up, and the process with the
last reference goes on to `Pipeclose`, as `fileclose()` does once `f->ref` is 0.

`Fifo` is a bounded queue that exists from `pipe()` to the last close.

### Ide, Bio and BlockStore

`Ide` has the queue, the command that the controller works on, and the handlers
of three builds, chosen by `driver`: the default one, the second controller of
HW4, and the disk in memory. All of a handler runs under `idelock`, so it is one
step. `Bio` EXTENDS it: the list of buffers in its order (`lru`), `refcnt`, the
flags, and for each buffer its sleep lock, which is released before the
reference is dropped (`Brelse`, then `BrelseDrop`). What callers do is bounded as
`fs.c` and `log.c` do it: a process holds up to `MaxHeld` buffers and takes a
second one only in one order of the blocks; `MaxPinned` buffers wait for a commit.

### Inode and Sysfile

A process in a call has a list of things still to do, `code[p]`; each step takes
at most one inode lock, so two calls interleave wherever the code can be
interrupted. `Inode` has `iget`, `ilock`, `iput` in its three parts (the test of
`ref` is not in the same critical section as the decrement) and `namex`; `Sysfile`
has `create`, `open`, `link`, `unlink`, `mkdir`, `mknod`, `chdir`, `dup`, `close` with every
error path, and the file table. The directories of the model have names, not
slots: that a slot of a directory is found or appended is `Dirlink`.

### Filedata and ByteFiles

`balloc`, `bfree`, `bmap`, `itrunc`, `readi` and `writei` are functions on the state of
the disk as the buffers have it, with the set of blocks logged; a step is one
transaction of `filewrite()` or `fileread()`, a commit copies the state to the
disk and a crash takes it back.

### Vm and Umalloc

`Vm` counts pages. `kalloc()` fails when there are none; `fork`, `exec` and `sbrk`
are run to the page where that happens and back out as the code does. Pages that
the code forgets are counted in `lost`: the table of memory maps that `allocproc()`
takes, and the page that `copyuvm()` holds when `mappages()` fails. `sbrk()` to
size 0 frees everything and then reports failure; such a process is `FAULTING`.
`Loop` of module `Loops` is a `for` loop: a turn per page or per segment, each an
operator on the state (`AllocPage`, `CopyPage`, `ExecSegment`), which does nothing
after one that has failed.
`Argptr` and `Fetchstr` are the checks of `syscall.c`. `Umalloc` is the free list
with addresses in units of a header; `base` is below the heap; the program may
move the break itself between two calls.

### Console, LineInput and Clock

`Console` has the shift state of `kbd.c`, the ring with `r`, `w`, `e` modulo `WRAP`
(for 2^32), the readers, and the cursor. `Clock` reads the registers one by one
while the clock ticks, twice, as `cmostime()` does; `shown` has the times that the
clock showed in this round of its loop, and `ticks` how many. A round takes less
than a minute (`MaxTicks < Radix[1]`): after a whole minute the seconds would be
those of before. `Valid` and `Tobcd` are those of `setdate()`.

### Parse, Shell, Grep, Mkfs and Text

`Parse` translates the functions of `sh.c` that parse, on sequences of characters;
`Reads` prints a tree and parses it back, `Exact` compares the tree of any line
with the words and operators in it. `Shell` runs trees: each `fork1()`, `pipe`, `open`,
`exec` and `wait` is a step of its process and may fail where the code tests for
it; the `close` and `dup` calls that follow a fork change only the caller's own
descriptors and are part of its step. `Grep` is
the matcher against the meaning of a pattern as a cut of the text. `Mkfs` is the
image that is built. `Text` has `string.c`, the paths of `namex()`, `printint`, the
formats of `printf` and `cprintf`, `atoi` and `wc`, each against a definition of
the result.

## 4. Runs

| Run | Instance | Question |
|---|---|---|
| `log_crash` | 2 processes, 2 blocks, 2 values, crashes anywhere | is every call atomic (`CrashAtomic`), are home blocks written after the header (`WriteAhead`), may clean buffers be recycled (`CleanBufferOnDisk`)? |
| `log_space` | 3 processes, 5 blocks, log of 6 | does the reservation keep `log_write()` from its panics and the log in its blocks, has each sleeper a waker, and does it wake up? |
| `proc_safe` | 3 slots, 2 CPUs, 4 pids | one CPU each, stacks, parents, no lost wakeup (`NoLostWakeup`: neither of `wait()` nor of `sys_sleep()`), panics |
| `proc_live` | 3 slots, 1 CPU | round robin, reaping, exit of the killed, `sys_sleep()` returns |
| `proc_born` | 2 slots, 1 CPU | finding 1 |
| `pipe` | 2 processes, 2 bytes of buffer, 2 byte values, counters modulo 4 | wakeups, the life of the page, order of bytes (refinement of `Fifo`), waiters come out |
| `disk` | 2 processes, 2 buffers, up to 3 blocks, 3 drivers | refinement of `BlockStore`, clean buffers on the disk, no panic of `bget()`, every request and sleeper served |
| `fs` | 2 processes, 3 inodes, 2 names, 8 calls with paths | references, link counts, locks and the inode cache in every interleaving |
| `fs_leak`, `fs_deadlock` | 2 processes that create and remove one name | findings 2 and 3 |
| `storage` | `which` = files, memory or heap | refinement of `ByteFiles` and ownership of blocks; pages; the free list of `malloc()` |
| `programs` | `which` = console, clock, shell, mkfs or input | refinement of `LineInput`; whole times; wiring and end of pipelines; the pure functions on all inputs of the bounds |

`storage` and `programs` hold several components that share nothing: `which` is
chosen in the initial state and only the steps of that component follow.

Bounds. Two processes are enough for a race on the log, and the third of
`log_space` is the one for whom there is no room. Three slots give `init`, a
process and its child. Pids are capped (`MaxPid`) at or above the number of
slots, so that slots are used again. Writes as long as the pipe fill it and
sleep in the middle, beside bytes already there, so that a writer can be killed
after it has put some in; `WRAP = 4` makes the counters wrap in a few steps.
`disk` has fewer buffers than blocks, so that buffers are recycled while others
look for them. `fs` has a directory that is entered, filled and removed by the other
process, and a file with two names; one entry of the file table runs out at once.
`storage` has files of direct and indirect blocks with a bitmap of several blocks,
and 15 pages, which two processes use up at every page of `fork`, `exec` and
`sbrk`. `programs` runs the shell on all trees of depth two and on pairs of
small lines; lines of up to 4 characters, patterns of up to 4 on texts of up to
3, integers of 8 bits, paths of up to 6 characters with `DIRSIZ = 3`; files of
`mkfs` that end within, at and beyond a direct and an indirect block.
`MaxSleep`, `KillPids`, `Calls`, `Incr`, `Want`, `Count`, `MaxRead`, `MaxTicks` bound
what processes ask for and how long the clock goes.

Deadlock is not checked where the system may stop for good: after the panic of
an exiting `init` (`proc_safe`, `proc_born`), when every process of the instance has
been killed (`pipe`), when two calls wait for each other (`fs`, finding 3),
when the heap or memory is used up and when a script or an image is done
(`storage`, `programs`); that the shell does not stop before is `NothingHangs`.

Fairness. `Log`: a call goes on to its end and a commit to its last write; strong
for `EndOp`, which competes for `log.lock`. `Proc`: timer interrupts keep coming
and a process in the kernel goes on, strongly fair because both wait for a spin
lock that others take in between; `init` keeps calling `wait()`, as `user/init.c`
does. `acquire()` gives no order among the CPUs that spin, so that strong
fairness is an assumption: that `xchg` does not starve a CPU for ever. User code
has no fairness: a process need never make another call. `Pipe`: a process inside
a call goes on, again strongly because of the lock; nobody is assumed to read,
write or close. `Bio`: the controller does what it was told, its interrupt is
handled, and a process that holds buffers goes on and releases them, as every
caller does; who gets a sleep lock after a wakeup is left open.

## 5. Findings

1. `proc_born`: `kill()` compares pids in slots of any state (`proc.c:566`), and
   neither `allocproc()` nor a failed `fork()` resets `pid` or `killed`. `kill(0)`
   marks a free slot, and the next child created there is born killed.
2. `fs_leak`: `iput()` reads `ip->ref` in one critical section and drops its
   reference in another (`fs.c:340`). Two processes that put the last two references
   of an unlinked inode both see 2; neither frees it.
3. `fs_deadlock`: `create()` calls `iunlockput(dp)` while it holds the new inode
   locked, and `iput()` takes the lock of `dp` again (`fs.c:335`); an `unlink()` that
   locked `dp` in between waits for the new inode.

Met on the way, without a comment that says otherwise; the models have the
behaviour, and the properties name it where they have to:

- a writer that is killed after it has filled the pipe returns at `pipe.c:87`
  without the `wakeup(&p->nread)` of line 95; a reader asleep stays so while another
  process holds the write end (`Abandoned`);
- `pipewrite()` and `piperead()` test `killed` before `sleep()` takes `ptable.lock`
  (`pipe.c:86`, `pipe.c:107`): a `kill()` in between wakes nobody, and the process
  sleeps, killed, until the other end acts;
- `allocproc()` takes a page that nothing frees (`proc.c:131`), `copyuvm()` loses
  one on an error path (`vm.c:343`), and `sbrk()` to nothing fails after it has
  freed the memory (`proc.c:188`);
- a disk read that fails is marked valid (`ide.c:501`); the runs have disks
  without errors;
- `mkfs` rounds the size of a root directory of whole blocks up by a block that
  is not there (`user/mkfs.c:132`).

## 6. Proofs

For each of the components below there is an inductive invariant, with lemmas
per action and conjunct, and the theorems derived from it. `LogProofs`,
`PipeProofs`, `VmProofs` and `DeviceProofs` (console and clock) are one module each.
`ProcInvariant` defines that of `Proc` and covers interrupts, locks and the switch;
`ProcProofs` covers the calls, and has the theorems. `BioInvariant` defines that of
`Bio` and covers the disk driver, `acquiresleep()` and `iderw()`; `BioProofs` covers
`bget()`, `bwrite()`, `log_write()` and `brelse()`, and has the theorems. `Inductive` in
`ProcInvariant` is another name for `IInv`, which lets a lemma be stated without
expanding it. Assumptions on the constants are `LogAssumption`, `BioAssumption`,
`ProcAssumption`, `PipeAssumption`, `VmAssumption`, `ConsoleAssumption` and
`ClockAssumption`, which TLC evaluates in every run of these modules.

**Log.** The properties are not inductive: that a crash is harmless depends
on what the log blocks hold at each stage of `commit()`. `StageInv` relates
`committing`, the stage and who is in a call; `HeldInv` the buffers held;
`HeadInv` that the headers name a block once and agree from the commit point
on; `DataInv` what is on the disk at each stage; `DirtyInv` that exactly the
blocks of the transaction that are not yet installed may be dirty; `SpaceInv`
that the log and what is still reserved fit `LOGSIZE`. Proved for any processes,
blocks and sizes: `TypeOK`, `CleanBufferOnDisk`, `WriteAhead`, `NoPanic`,
`LogFits`, `SleeperHasWaker`, and `CrashAtomic`, the refinement of `AtomicFs`.

**Bio.** That the cache keeps one value of a block follows only from all its
parts. `CountInv`: a block has one buffer, and `refcnt` is the number of
processes that hold the buffer, wait for it or have not finished giving it back.
`HoldInv`: each of these is about the block it asked for, under the sleep lock
where the code needs it. `QueueInv`: a request in the queue is that of one process
that waits for it. `CmdInv`: the controller works on the first request and, once
it is done, the disk has the data. `DataInv`: a clean buffer is on the disk.
`BioAssumption` has what the driver relies on: there are no disk errors (a
failed read is marked valid), and the blocks in use are on the disks of one
controller. Proved for any buffers, blocks and processes, for the three builds:
`CleanOnDisk`, and `CoherentBlocks`, the refinement of `BlockStore`. For
the latter, `Worth(k, v)` says that `v` is in the valid buffer of `k`, or on the
disk if there is none; each step but a write of the holder keeps it.
`NeverPanics` needs `PanicInv` besides: a locked buffer has an owner that uses it,
what `iderw()` is called with has work to do, and every buffer is in the list.
When `bget()` finds no buffer of the block and none to recycle, each buffer is in
use or dirty; those are at most the held and the pinned ones, which the bound on
callers keeps below `NBUF`.

**Proc.** `LockInv`: a CPU that has switched holds the lock until the new
context releases it. `ForkInv`: a child under construction belongs to one
process. `StackInv` and `ParentInv` are `StackWhileNeeded` and `LivingParent` with
what makes them inductive: `init` never exits, and a free slot has no parent.
`TickInv`: `tickslock` is held from the test in `sys_sleep()` to the sleep, so
no tick comes between. Proved for any table and any number of CPUs: `TypeOK`,
`OneCpu`, `StackWhileNeeded`, `LivingParent`, `NoLostWakeup` (from
`WaiterHasReason` and `SleeperHasDeadline`), `OnlyInitPanics`.

**Pipe.** `HoldInv`: the lock is held in the loops, and a sleeper holds the
end it waits at. `OpenInv`: an end is open while someone holds it or is closing
it. `SleepInv`: why each sleeper sleeps, also while another process is in the
middle of a call that will wake it. Proved for any processes and sizes: `TypeOK`,
`SleepersHaveReason` (from `ReaderHasReason` and `WriterHasReason`), `PageWhileUsed`,
and `FifoOrder`, the refinement of `Fifo`. For the latter, `RingInv` says that the
counters, as they wrap, are at most `PIPESIZE` apart; that `WRAP` is a multiple of
`PIPESIZE` makes a counter that wraps go on in the next place of the buffer.

**Vm.** `VmInv`: a free slot has nothing but its table of memory maps, a process
that runs has exactly the pages below its size, nothing has panicked, and the pages
add up (`PagesConserved`). Each routine has a lemma: `Sum`, the free and forgotten
pages with those of the address space at hand, stays the same through it, and the
pages mapped are those of the size it returns, or those of before when it fails.
For a loop, `Runs` gives the states its turns lead through, by induction on their
number; that the recursive function of `Loop` is this run follows turn by turn. A call
then is a `Step`: one slot changes, it and the free list exchange pages, and if it
fails nothing else is different. `AddsDiff` turns that into the sum over all slots.
`VmAssumption` asks for memory that the first process fits in, as `userinit()`
panics without it, and for a `KERNBASE` at the end of a page. Proved for any
memory, page size, slots, increments and programs: `PagesConserved`, `SizeIsMapped`
and `FailureRestores`.

**Console.** `RingInv`: the finished and the typed characters between `r`, `w` and
`e` fit the ring, and no newline is among the typed ones; a reader that sleeps has
nothing finished to read. `Piece` is what lies between two indices; a character
stored, erased, finished or read changes one end of one piece. Proved for any
ring, readers, keyboard and screen: `LinesInOrder`, the refinement of `LineInput`
with `ReaderSleepsOnEmpty`.

**Clock.** `ClockInv`: the seconds have gone on by at most `ticks` since they were
read, and while they have not, all that was read since is what the registers
have. If the second reading begins with the same seconds, the clock has not ticked
in between, since it ticks less than `Radix[1]` times in a round; so the first
reading is a time that was shown. Proved for any number of fields of any size up
to 100: `TimeWhole`.

Only model-checked: liveness (`SleeperWakes`, `Scheduled`, `OrphanReaped`,
`KilledExits`, `SleepReturns`, `SleepersLeave`, `RequestServed`), which TLAPS does not
reach; the other components; and the recursive functions of `Parse`, `Grep` and
`Text`, for which there is no induction over data.

## 7. Not modelled

- Memory maps (HW5). `mmap()` returns -1 for every entry that it finds
  (`proc.c:858` compares it with `(struct mme*) -1` the wrong way round), so no map
  is ever made; `munmap()` then returns at once, and what the page-fault handler
  reads through the end marker -1 (`trap.c:127`) is no behaviour of a program.
- Start-up, multiprocessor tables and interrupt controllers: straight-line set-up
  of hardware before the first process. Device ports, the serial port and the
  key tables: pure I/O and data.
- HW3 and the rest of HW4, which the default build leaves out: the calibration of
  the timer follows measured time, `lseek` sets an offset, statistics count.
- The clock with several CPUs: `setdate()` (`proc.c:757`) and `cmostime()` use the
  same port under different protections, so nothing can be promised then. A tick
  between two writes of `setdate()` may carry into a register already written.
- The `cd` command of the shell, the buffering of lines in `grep`, the other user
  programs and the tests.
- `sys_exec`, `sys_pipe` and `sys_fstat` as far as they only fetch and copy
  arguments.

Memory is sequentially consistent: every shared variable of these modules is
accessed under a lock, except `p->killed`, `np` under construction and the tests
at the top of `log_write()`, whose accesses are steps of their own.
