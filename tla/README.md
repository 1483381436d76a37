# xv6 with physical-memory allocation: a verification project

The repository holds three complete copies of xv6 for x86 (`src/v1a`, `src/v1b`,
`src/v2-sort`), one per stage of a course project on physical memory
allocation.  Only `kalloc.c`, `vm.c`, `proc.c`, `exec.c`, `pipe.c` and `main.c`
(and `defs.h`, `Makefile`, the test programs) differ between them; every other
file is the same in all three.  The modules below model `v2-sort` wherever the
copies agree, and the two generations of `kalloc.c` separately; `Vm`, whose code
they share, has either below it.

Paths in this document are relative to `src/src/`.

## 1. Inventory

| Component | State | Operations | Interacts through |
|---|---|---|---|
| Page allocator, table version (`v2-sort/kalloc.c`) | boot free list, `frames[17000]` (pid, pfn), `use_lock` | `kinit1`, `kinit2`, `kalloc`, `kalloc2(pid)`, `kfree`, `dump_physmem` | called by `vm.c`, `proc.c`, `pipe.c`, `exec.c`; `kmem.lock` |
| Page allocator, list version (`v1a`, `v1b` `kalloc.c`) | free list threaded through the pages, logs `frames[]`, `pids[]`, `index` | the same, with the free list in use throughout; every second page is skipped | the same |
| Spin locks (`spinlock.c`) | `locked`, `cpu` per lock; `ncli`, `intena`, IF per CPU | `acquire`, `release`, `holding`, `pushcli`, `popcli` | every other component; interrupts |
| Sleep locks (`sleeplock.c`) | `locked`, `pid`, an inner spin lock | `acquiresleep`, `releasesleep`, `holdingsleep` | `sleep`/`wakeup` |
| Processes (`proc.c`, `swtch.S`) | `ptable`, each process's state, parent, channel, `killed`; each CPU's `proc` and `scheduler` context | `allocproc`, `fork`, `exit`, `wait`, `kill`, `sleep`, `wakeup`, `yield`, `scheduler`, `forkret` | `ptable.lock`, handed over across `swtch` |
| Traps, timer (`trap.c`, `sysproc.c`) | `ticks`, `tickslock` | timer interrupt, page faults, `sys_sleep`, `sys_uptime` | `wakeup`, `yield`, `exit` of killed processes |
| System call arguments (`syscall.c`) | none | `fetchint`, `fetchstr`, `argptr` | every system call |
| Virtual memory (`vm.c`, `exec.c`) | page directories, user page tables, sizes | `allocuvm`, `deallocuvm`, `copyuvm`, `freevm`, `mappages`, `growproc`, `exec` | page allocator |
| Pipes (`pipe.c`) | `data[512]`, `nread`, `nwrite`, `readopen`, `writeopen` | `pipealloc`, `pipeclose`, `piperead`, `pipewrite` | file table, `sleep`/`wakeup`, page allocator |
| Log (`log.c`) | `lh` (n, block numbers), `outstanding`, `committing`; the log on disk | `begin_op`, `log_write`, `end_op`, `commit`, recovery at boot | buffer cache, file system calls |
| Buffer cache (`bio.c`) | 30 buffers in an LRU list: `refcnt`, `flags`, lock | `bget`, `bread`, `bwrite`, `brelse` | disk driver, log, file system |
| Disk driver (`ide.c`) | request queue `idequeue` | `iderw`, `ideintr`, `idestart` | buffer cache, disk interrupt |
| Inodes (`fs.c`) | `icache` (ref, valid), on-disk inodes, bitmap, blocks | `iget`, `iput`, `ilock`, `iunlock`, `ialloc`, `balloc`, `bmap`, `itrunc`, `readi`, `writei` | log, buffer cache |
| Directories, paths (`fs.c`, `sysfile.c`) | directory entries, link counts | `dirlookup`, `dirlink`, `namex`, `sys_link`, `sys_unlink`, `create`, `sys_open` | inodes |
| Open files (`file.c`, `sysfile.c`) | `ftable` (ref), each process's `ofile[]` | `filealloc`, `filedup`, `fileclose`, `fdalloc`, `sys_dup`, `sys_close` | pipes, inodes |
| Console (`console.c`, `kbd.c`) | input ring (r, w, e), echo mode, shift state | `consoleintr`, `consoleread`, `consolewrite`, `kbdgetc` | keyboard interrupt, `sleep`/`wakeup` |
| User allocator (`umalloc.c`) | circular list of free blocks | `malloc`, `free`, `morecore` | `sbrk` |
| Strings, `cprintf` (`string.c`, `console.c`) | - | `memmove`, `safestrcpy`, output | everything |
| Boot, devices (`bootasm.S`, `entry*.S`, `mp.c`, `lapic.c`, `ioapic.c`, `picirq.c`, `uart.c`) | hardware registers | initialisation | - |
| User programs, tools (`sh.c`, `usertests.c`, ..., `mkfs.c`) | - | - | system calls |

### What makes each part correct, and what is hard about it

- **Page allocator.** A page has one owner; two processes never have
  neighbouring pages; the table and `dump_physmem` tell the truth. Hard: long
  sequences of legal calls (the admissible frame depends on everything held),
  the two ends of the table, what a call does when nothing is left, a dump that
  reads without the lock.
- **Spin locks.** One holder, also against an interrupt on the same CPU; the
  interrupt flag is restored by the outermost release. Hard: `holding()` reads
  two words other CPUs write; the order of the stores in `release()`.
- **Processes.** A process runs on one CPU; its stack is not freed under it; no
  wakeup is lost; the parent links form a tree. Hard: `ptable.lock` is taken by
  one thread and released by another across `swtch`; the interrupt state
  belongs to the thread but lives in the CPU.
- **Pipes, console.** A FIFO; nobody sleeps who could go on; memory freed once.
  Hard: free-running counters that wrap, two channels, `kill` at any time.
- **Log.** All or nothing for each group of calls, through a crash at any write
  and in recovery. Hard: reservation, absorption, the commit without the lock.
- **Buffer cache, disk driver.** One buffer per block, no lost request, no lost
  change. Hard: everything between the release of `bcache.lock` and the sleep
  lock, and the interrupt that comes before the requester sleeps.
- **Inodes, files, directories.** Reference counts agree with references;
  `nlink` with entries; a freed inode is nobody's. Hard: `iput` racing `iget`.
- **Virtual memory, exec.** Every page mapped once and freed once, on the
  failure paths too.
- **Blocks of files.** The bitmap agrees with what inodes refer to; a call stays
  in its share of the log; a file is the bytes written to it. Hard: writes cut
  into several transactions, an offset shared between processes, a full disk.
- **Shell.** A pipeline ends. Hard: every process has copies of both ends of
  every pipe made before it, and each of them has to be closed.
- **Start of the processors.** Each gets its own stack. Hard: one word in low
  memory tells all of them theirs, and the allocator has no lock yet.
- **Routines.** The loops that copy, check, print, match, parse and load do what
  they are for. Hard: overlaps, sums that overflow, the ends of buffers.

## 2. Modules

| Module | Models | State and actions |
|---|---|---|
| `KallocSort` | `v2-sort/kalloc.c` | `freelist`, `frames[]` as `framePid`, `framePfn`; `Kinit1`, `BootAlloc`, `Kinit2`, `Kalloc`, `Kalloc2`, `Kfree`, and `dump_physmem()` access by access |
| `KallocList` | `v1a/kalloc.c`, `v1b/kalloc.c` | the free list, the logs `frames[]`/`pids[]` as one sequence; the double unlink of each allocation |
| `Spinlock` | `spinlock.c` | one action per access to `locked`, `cpu`, `ncli`, the flag; handlers on top of kernel code |
| `Proc` | `proc.c`, the clock of `trap.c`, `sys_sleep` of `sysproc.c` | `struct proc`, the CPUs' `proc`, flag, `ncli`, `intena`; one action per section between two points where another thread may step in |
| `Pipe` | `pipe.c`, `fileclose` of `file.c` | `struct pipe`; each process's place in `pipewrite`, `piperead`, `pipeclose`; `kill` between any two steps |
| `Log` | `log.c` | the disk (home blocks, header, log blocks) apart from the memory (cache, header, counters); one action per disk write; `log_write()`'s test of the room (`LogWrite`) apart from what it does under the lock (`LogAdd`); `Crash` |
| `Bcache` | `bio.c`, `sleeplock.c`, `ide.c` | `struct buf`, the LRU list, sleep locks, `idequeue`, the command the disk works on |
| `Fs` | inodes of `fs.c`, `namex`, `dirlink`, the calls of `sysfile.c` about names | the disk, its durable copy, `icache` entry by entry with its lock, each process's place and references; a step for each lock that is taken while another is held; `Crash` and recovery with orphans |
| `Blocks` | `balloc`, `bfree`, `bmap`, `itrunc`, `readi`, `writei` of `fs.c`, `fileread`, `filewrite` | bitmap, blocks with bytes or addresses, inodes, offsets; a write transaction by transaction |
| `Files` | `file.c`, `fdalloc`, `sys_open`, `sys_dup`, `sys_close`, `sys_pipe`, `pipealloc`, the files of `fork` and `exit` | `ftable`, `ofile[]`; the references a call holds between two locked sections |
| `Vm` | `vm.c`, `growproc`, `fork`, `exec`, `exit`, `wait` | the free pages, every page's owner and use, over the list of `v1a` and `v1b` or the table of `v2-sort`; each allocation of a call may be the one that finds the list empty |
| `Umalloc` | `umalloc.c` | the circular list of free blocks, `freep`; `malloc`, `morecore`, `free` |
| `Console` | `consoleintr`, `consoleread` | `input.buf`, `r`, `w`, `e` with wrap; readers asleep, killed or between |
| `Kbd` | `kbd.c`, `kbd.h` | `shift`; a keyboard typed on ahead of the interrupt |
| `Rtc` | `cmostime()` of `lapic.c` | the two readings, register by register, beside a clock that changes |
| `Boot` | `startothers()`, `entryother.S`, `mpenter()`, `kinit2()` | each processor's place and stack, the word at 0x7000 - 4, `use_lock` |
| `Parser` | the parser of `sh.c` | functions on tokens |
| `Shell` | `runcmd()`, `main()` of `sh.c` | each command as the system calls it makes; processes, descriptors, pipes |
| `Routines` | `string.c`, `syscall.c`'s checks, `printint`, `cgaputc`, grep's matcher, `mkfs.c` | one call a step, result beside specification |
| `Library` | `gets`, `printf`, `cprintf`, `wc`, grep's line buffer | the same |
| `Loader` | `bootmain.c`, `mpinit()`, `exec()`'s argument stack, `copyout` | the same |
| `Usertests`, `Filetests`, `Memtests` | the tests of `usertests.c` about names, files and processes; `stressfs.c`, `forktest.c`, `init.c`, `zombie.c` | each test as the sequence of its calls with what it wants of each, run by the actions of `Fs`, `Blocks` and `Vm` |
| `LockService`, `Channel`, `AtomicDisk`, `BlockStore`, `FileStore`, `Tty` | what a lock, a pipe, the log, the buffer cache, a file and the terminal promise | abstract specifications |
| `MC*` | | the instances that need definitions; the other `.cfg` files are for the module of their name |
| `Descriptors` | | `Files` as one part beside others, with the constants and variables named for it: what the proofs and `programs` share |
| `Storage`, `Terminal` | | `Blocks` and `Console` likewise: what the proofs and `parts` share |
| `*Proofs` | | the theorems about the module named; those about `Files` and `Console` are at the end of `PipeProofs`, those about `Blocks` at the end of `LogProofs` |

The modules build on each other by what a lower one guarantees, mostly not by
sharing variables. `Spinlock` justifies that the other modules make a
section under one spin lock a single step. `Proc` keeps `ptable.lock` as a
variable, since the lock crosses a context switch, and its `NoTickMissed`
is about the order of locks in `sleep()`, which lets `Pipe`, `Log`,
`Bcache` and `Console` make `sleep(chan, lk)` one step. `Log` sees the cache as
`BlockStore` presents it, with the rule that a block in the log is not
evicted, which is `Bcache`'s side of `ImplementsStore`; the part of `LogSound`
that every changed block is in the log is the other side. `Fs` takes its
disk from `AtomicDisk`: durable changes when the last call under way ends. In
`Blocks` the number of distinct blocks of a transaction, `logged`, is kept beside
MAXOPBLOCKS, which is what `Log` takes for granted of its callers.
`Shell` takes descriptors and pipes from `Files` and `Pipe`. Three modules of
tests EXTEND the module they run on, so that their programs are made of the very
actions the other runs check.

Operators with the comment *Mutant* are altered forms of an action
as a slip in the code would have it. They belong to no specification; putting
one in the action's place shows that the property named with it notices.

Where the three copies of xv6 agree, a definition stands for the code of all of
them. The map names one: `v2-sort`'s, or, when other definitions name the same
lines of `v2-sort` already, those of `v1a` or `v1b` with the identical text.

### Correspondence, where it is not one to one

- `KallocSort.PidAt`: the scan of `frames[]` reads `frames[-1]` and
  `frames[17000]`. The words there belong to other variables, so the model
  lets them be anything the tests can tell apart.
- `KallocSort.exhausted`: when the scan finds nothing the code returns the page
  at the head of the boot list. The ownership properties speak of the time
  before that; the run `kalloc_sort_exhaust` of the moment itself.
- `KallocList.wild`: the same for the list's last page, where the code reads
  the word at address 0; the list's head is arbitrary from there on.
- `Proc.intena`: `release()` leaves `intena` behind when the last lock goes; the
  next `pushcli()` overwrites it. The model resets it, to have fewer states.
- `Proc.due`: the length of a `sys_sleep()` is abstract; a tick ends any of the
  waits under way.
- `Pipe.ends`: the descriptors of the processes, counted as `ftable` does.
- `Log.cache`: a home block's content as `bread()` returns it.
- `Log.wrote`: the blocks a call has written; that a call writes at most
  MAXOPBLOCKS is what its callers in `sysfile.c` and `file.c` are written to.
- `Bcache.Unref`: `brelse()` moves a buffer nobody has to the front of the list;
  `ToFront` says where each place of the list gets its buffer from.
- `Log.size`, `Log.Behind`: the log's blocks with its header, `sb.nlog`, and the
  home block behind them, which is what `log.start + i` is if `i` is too large.
  (`Stuck`: if that block is itself in the log, a process waits for its own
  buffer.)
- `Log.DirtyIsLogged`: a block changed in memory is in `log.lh`, or a call is on
  its way to put it there.
- `Log.Reserved`: `MayWrite` is the blocks that the calls under way may still
  write for the first time, one by one, so that its size is what `begin_op()`
  reckons with.
- `Bcache.request`: what the disk was told, which is compared with the head of
  `idequeue` when it answers.
- `Fs.disk`: a directory is a function from its names to inodes, not an array of
  entries. `Fs.icache` has an entry per inode, with `ref` 0 when the code's
  table has none.
- `Blocks.proc`: what is left of a `write()`, -1 once it has failed.
- `Vm.Fork`, `Vm.Exec`: a call is one step. Between processes only the pool of
  free pages is shared, and a call meets every number of free pages.
- `Vm.mem.kernel`: which allocator a behaviour has, chosen at the start. The list
  loses the page behind the one it gives, and gives 0 when it is empty; its
  order is `KallocList`'s subject. The table has the frames' pids and the
  neighbour rule, and never gives 0: when no frame suits, it gives the page of
  frame 0, which is held.
- `Vm.mem.wild`: that has happened, or the list has come to its last page and
  reads address 0. The model stops there; `KallocSort` and `KallocList` go on.
  That `v1a` and `v1b` write behind their log of allocations is `KallocList`'s
  limit too.
- `Memtests`: the memory is the table's, with frames enough.
- `Kbd.due`: what each byte should give, computed when the key goes down.
  `Kbd.lost`: two keys of one modifier share a bit, and the first that comes up
  clears it.
- `Library.Grep`: the pattern is one character; matching is `Routines.Match`.
- `Loader`: addresses of the stack are counted from the guard page, and
  arguments are short enough that the stack pointer does not wrap.

## 3. Runs

| Run | Question and bounds | Result |
|---|---|---|
| `kalloc_sort` | 4 table entries, 6 pages, 2 processes and the kernel, one dump of up to 2. A frame has two neighbours, so 4 entries hold two processes with and without a gap, and both ends | all hold |
| `programs` | the parts programs use, each an instance of its own, see below | all hold |
| `parts` | the small parts of the kernel and the routines, see below | all hold |
| `proc_smp` | 2 CPUs, 2 slots, pids up to 3, so that the second slot is used twice (reaped and made again, or failed and made again) | all hold |
| `proc_tree` | 1 CPU, 3 slots: a parent, a child and a grandchild that is orphaned; the scheduler's round with fairness | all hold |
| `pipe` | 3 processes sharing the ends, 2 byte ring, counters modulo 4 (twice the ring), calls of 1 and 3 bytes: fits, does not fit, wraps | all hold |
| `log` | 3 calls of one block each, 2 home blocks, a log of 2 blocks and its header, a crash at any step: two calls fit, the third waits; groups of two commit together, the same block among them; LOGSIZE and `size - 1` are met at once | all hold |
| `bcache` | 2 processes, 3 blocks, 2 buffers: hits, misses, recycling, waiting for a lock, and no buffer left | all hold |
| `fs` | 2 processes of 3 calls, 3 inodes, names `a` and `b` in two levels, a crash at any step: one process makes, links and removes the directory the other works in | all hold |
| `kalloc_sort_exhaust` | 3 entries: what a call returns when nothing is admissible | `NoReissue` violated |
| `fs_lastput` | 2 processes, one round of the test `concreate` | `LastPutFrees` violated |
| `fs_locks` | 2 processes, the test `linkunlink` | `NoLockCycle` violated |

`programs` and `parts` hold several instances that share no state: the variable
`part` says which one runs, and the others' variables are idle or stand still.
One run of several parts asks as much as one run of each would; the bounds of
each are at its INSTANCE.

- `programs`: `KallocList` (8 pages, 2 of them low, 5 calls after boot: several
  skips, frees in every order, reuse); `Vm` (2 processes, of which one needs 5 to 9 pages; lists of 20 and of 22
  pages, which give 10 and 11 before they end, and tables of 12 frames with
  either kind of word beside them; programs with one and two segments, one that
  ends in mid page, one that cannot be read, one whose arguments do not fit;
  among what is reached are `fork()`, `sbrk()` and `exec()` that find the list
  empty at their first and at a later page, and an `sbrk()` down to 0); `Umalloc`
  (heap of 12 units, blocks of 2 and 3: merging on each side and on both);
  `Files` (2 processes, 3 table entries, 2 descriptors, one pipe: each of the
  three runs out); `Shell` (6 processes, 2 pipes of a byte, five command lines);
  `Memtests` (9 tests, 5 processes, 40 frames: slots run out, frames do not); `Usertests` (22 tests and rounds, 3 processes, 10
  inodes); `Filetests` (7 tests, 3 processes, 2 files, 8 blocks of 4 bytes).
- `parts`: `Spinlock` (2 CPUs, 2 nested locks, a handler on each CPU); `Boot`
  (2 processors to start, 3 low pages); `Kbd` (5 keys with two control keys,
  3 bytes ahead); `Rtc` (2 registers, 5 seconds); `Blocks` (2 processes, 3 open
  files on 2 inodes, 7 blocks, an indirect block, writes of 1, 6 and 7 bytes);
  `Console` (2 readers, ring of 3, counters that wrap at 6); `Routines`,
  `Library`, `Loader` (all inputs up to the lengths given there).

Bounds on counters are constants: `MaxReport`, `LogSize` (the allocator's log),
`MaxPid`, `MaxCalls`, `MaxWrites`, `MaxLines`, `MaxBytes`, `MaxTime`, `Clocked`
(the places where the clock interrupts a thread; all of them in `proc_smp`),
`Requests`, `Wrap`. `programs` and the runs of single tests do not check for
deadlock: logs fill up, pids run out, tests end. In the others a stopped machine
(a panic) or a part at its bound steps in place, so every other stop would be
reported.

### What the passing runs show

The invariants and action properties are stated in the modules. Six abstract
specifications are checked as properties: `Spinlock` implements `LockService`,
`Pipe` implements `Channel` (with the ring's contents as the queue), `Log`
implements `AtomicDisk` (with the disk as recovery would leave it as what is
durable, so that the header's write is the one step that commits), `Bcache`
implements `BlockStore`, `Blocks` implements `FileStore` (bytes found through
`bmap`'s addresses are the file's bytes, however a write is cut into
transactions; each transaction is one write of its part), and `Console` implements
`Tty` (what is between `r` and `w` is the queue of finished lines, what is
between `w` and `e` the line being edited).

`FailureUndone` says what a failing call leaves, and what it does not undo: page
tables that `allocuvm()` has put into a directory that stays, the pages that the
list of `v1a` and `v1b` loses with each allocation, and, the one exception for the
caller's image, `sbrk()` down to exactly 0. Failures for want of memory are those of
`v1a` and `v1b`. In `v2-sort` no allocation fails, so that `fork()`, `sbrk()` and
`exec()` only fail for other reasons there; what it does instead is
`kalloc_sort_exhaust`.

`LogSound` says that `log.lh` has room for what the calls under way may yet log,
though they look at it without the lock, that nothing is changed in memory that is not
in it or on its way there, and that the panic "too big a transaction" is met in
a full log only. That it is met at all is a fact of the code: `log_write()` looks for
room before it looks for the block, so a call that writes a block again panics
when the log is full, within its reservation.

`TestsPass` says that the repository's own tests pass in the model, in every
order of the processes they fork:
each call returns what the test wants of it, and meanwhile the module's own
invariants hold. It is also a test of the models: one that had lost a behaviour
the tests rely on would complain.

Three facts about the tests came up with that. `linkunlink`, and the rounds of
`concreate` in which one process makes a name that the other links or unlinks,
can deadlock (`fs_locks`); of these tests `TestsPass` asks what comes before
that. `concreate`, `openiputtest`, `createdelete` and `linkunlink` can leave an
inode allocated for good (`fs_lastput`), `createdelete` because an inode that
`iput()` has just freed is made and unlinked again by another process before
`iput()` drops its reference, which that process's own `iput()` then sees. And
the last loop of `createdelete` unlinks `'p' + i`, where the files are named by
the process.

Liveness is checked in three runs:

- `EveryoneRuns` (`proc_tree`) under strong fairness of a CPU's thread and its
  timer: the clock interrupts again and again, and leaves a thread the time for
  a step between ticks. That is the hardware; without the second half a thread
  could be interrupted for ever. The kernel's part is that `scheduler()` goes
  on with the slot after the one that ran.
- `SleepersWake` (`log`) under weak fairness of the commit, of the locked part of
  `log_write()` and of a woken call, and strong fairness of `end_op()` of a call
  under way: a system call may be in `log_write()` again and again, but ends, as
  each of them does, and the scheduler runs everyone. No fairness of new calls
  or of the crash.
- `RequestServed` (`bcache`) under weak fairness of the disk's answer and of
  the processes in the cache.

`ShellSound` is the safety side of another: as long as a process of the shell's
is left, one of them is not waiting for the others.

### What the violated ones show

- `kalloc_sort_exhaust`: `kalloc()` and `kalloc2()` of `v2-sort` start with
  `r = kmem.freelist` and return it when no frame suits. That page is frame 0's,
  and held. The comment (`kalloc.c:128`) says 0 is returned.
- `fs_lastput`: `iput()` reads `ref` under `icache.lock`, lets it go, and takes
  its reference off later. Two processes that put the last two references of an
  unlinked inode can both see 2; neither frees it. The comment at `fs.c:120`
  says `iput()` frees an inode whose counts have fallen to zero.
- `fs_locks`: `create()` puts the directory while it holds the new inode's lock,
  and `iput()` takes the directory's lock; a process that has found the new name
  holds the directory's lock and wants the inode's. `linkunlink` is written "to
  look for deadlocks".

### What else the models show of the code

Limits and oddities for which no run is there. The models reach each of them. Most
are denied by nothing in the repository; where a comment or the code itself
has it otherwise, it is named, and the properties claim nothing of the case.

- A killed writer returns from a full pipe without waking the readers, who sleep
  beside the bytes as long as another process keeps the write end open.
- The log that `mkfs` makes has LOGSIZE blocks with its header (`mkfs.c:25`), so
  LOGSIZE - 1 for data, where `param.h:11` has LOGSIZE as the "max data blocks
  in on-disk log", and `begin_op()` gives out that many. `log_write()` panics at
  `size - 1`, but tests it before it takes `log.lock` (`log.c:218`): two calls that
  both find room for one more block make the commit write the last block behind
  the log, over the first block of inodes, and recovery would read it from
  there. With `size = LOGSIZE` TLC finds `ImplementsAtomicDisk` violated that way;
  the run and the theorem are about a longer log. `LogSound` holds with
  either.
- In `v1a` and `v1b` each allocation loses a page for good (`kalloc.c:130` of `v1b`),
  so that a machine which forks and exits for long enough has no memory left.
- In `v2-sort` no memory is ever refused: `mem()` and the second half of `sbrktest()`,
  which want 100 MB of the 66 MB in `frames[]`, get pages that others have.
- `unlink()` of a directory takes the link of its `..` from the parent, but a process
  that works there keeps the entry. `mkdir /a`, `mkdir /a/b`, `chdir /a/b`, `unlink
  /a/b`, `unlink /a`, and the parent's inode is freed; `open ..` locks it, and `ilock()`
  panics, "no type". (`iputtest` goes one level up only, and to the root.)
- `kill()` matches the pid of an UNUSED slot; `allocproc()` does not clear
  `killed`, and the next child is born killed.
- The most a `write()` of `filewrite()`'s size changes is exactly MAXOPBLOCKS.
  `itrunc()` of a large file would touch more only with more blocks of bitmap
  than the one that a disk of FSSIZE blocks has.
- A full disk is a panic, of `balloc()` or `ialloc()`, not an error.
- `growproc()` to a size of exactly 0 frees the pages and returns -1 with `sz`
  as it was, since `deallocuvm()` returns the new size and 0 counts as failure.
- Of `cmd > a > b` the first redirection decides where the output goes: the
  parser puts the later ones outside, and they are opened first.
- `mkfs` makes the root directory a block larger than it has when its entries
  fill their blocks.
- `grep` drops what it has of a line when a `read()` brings no newline, and never
  prints a last line without one (`grep.c:29`).
- `mpinit()`, at an entry it does not know, leaves the `switch` and not the loop
  (`mp.c:126`): it goes round for ever, and the panic behind the loop that is
  meant for this (`mp.c:130`) is never reached. `SurveysRight` is about tables
  without such an entry.
- `printf()` takes an argument for `%c`, though its comment says that it "Only
  understands %d, %x, %p, %s" (`printf.c:38`); `cprintf()` does not, and prints
  the wrong arguments after one. `FormattedRight` is about formats without it.
- Nothing calls `cmostime()`.

## 4. Proofs

The theorems hold for every value of the constants that satisfies the modules'
assumptions (`KallocAssumption`, `KallocListAssumption`, `SpinlockAssumption`,
`PipeAssumption`, `LogAssumption`, `BcacheAssumption`, `ProcAssumption`,
`FsAssumption`, `CallsAssumption`, `DescriptorsAssumption`, `StorageAssumption`,
`TerminalAssumption`): any
number of pages, processors, processes, slots, buffers, blocks, inodes, table entries and
descriptors, any ring and log, any size of blocks, of a file's tables of them and of a
`write()`, any calls on any paths. What they assume beyond
the ranges of numbers is that there are finitely many processes (`Bcache`,
`Fs`, `Files`), names (`Fs`), inodes (`Storage`) and calls (`Log`), that the counters
of a pipe and of the console wrap at a multiple of its size, as 2^32 is of 512 and 128, that a call's reservation
fits in LOGSIZE and LOGSIZE in the log with its header, that the addresses in an indirect block fit in a block
(`NINDIRECT` is `BSIZE / sizeof(uint)`), that a reservation of the log is at least 6
blocks (MAXOPBLOCKS is 10) and covers an inode with every block of the bitmap, as on a
disk of FSSIZE blocks, that CPUs are not named by the numbers of slots, and that `/`
is only in front of a path, since the elements of one are what `skipelem()`
cuts out between slashes. Each theorem is derived from an inductive invariant
`IInv` of its module, which TLC had checked on the instances of section 3
before.

- **`KallocSortProofs`.** `NoForeignNeighbour` alone is inductive on the table,
  but `SingleOwner` and `PagesApart` need that the table is a map from frames to
  distinct pages. `BootOrder` says how that comes about: the free list is
  descending at every moment of boot, so `kinit2()` copies the topmost pages in
  order and frame `i` is page `NPages - 1 - i`; neighbours in the table are then
  neighbours in memory. `TableExact` ties the table to what callers hold.
  `DumpReportsTable` adds a loop invariant: what has been reported is what the
  table has below `dump.i`, at the position that the number of allocated frames up
  to it gives; a change of the table ends the claim, since the dump has no lock.
- **`KallocListProofs`.** That the double step skips the physical neighbour needs
  `ListOrder`: below the recycled pages the list is fresh and descending, and a
  fresh page is followed by its neighbour if that has not been handed out. Frees
  only push recycled pages in front, so the order survives them. `LogComplete`
  needs only that the log grows at its end, and that a page allocated is named
  there with its new holder.
- **`SpinlockProofs`.** `CpuInv` says what each CPU knows of its own counters and
  flag at each place; `LockInv` that ownership, `locked` and `cpu` agree except
  in the windows the code has. Mutual exclusion, the absence of panics and the
  restoration of the flag follow, and with them `SpinlockImplementsService`.
- **`PipeProofs`.** That no wakeup is lost is not inductive: a reader that has made
  room lets a writer sleep beside it until it calls `wakeup()`. `WritersWait` and
  `ReadersWait` say who, inside of the lock (`LockHeld`), is still to wake whom;
  for readers it may also be a writer that was killed. `EndsHeld` has it that only
  who closed the last descriptor of an end is on its way to `pipeclose()`, so the
  page is freed once. For `PipeImplementsChannel` the ring between the two
  counters, modulo PIPESIZE and through their wrap, is the queue: lemmas on
  division show that distinct counters less than a ring apart are distinct places.

  Then it is about `Files`, which says where `Pipe`'s descriptors come
  from: by `DescriptorsExact` each open end of a pipe has one owner, who lets it go once. `ref` and the references of inodes and ends are compared with numbers of
  pointers and of owners, as sets, so each action is an equation: what a process has
  lost or gained, an entry has too (`PointerCount`, `OwnersOf`). `FilesExact` is not
  inductive by itself. What `pipe()` and `open()` do with an entry they have got relies on
  its being nobody else's and still open on nothing, which is `Blank`: it holds because
  `ref` is 1 and one pointer is known; and what `new`, `todo` and `rel` mean depends on
  the place of the call (`GotShapes`), `dup()`'s place included, where the descriptor is
  filled before it is counted. That a pointer to an entry makes `ref` at least 1, and two
  make it 2 (`PointsTo` and its like), is why no `filealloc()` finds it and no other's
  `fileclose()` empties it.

  Last is `Console`, whose ring has a part that may still be taken back. The refinement
  needs that `w` is between `r` and `e` and these at most a ring apart (`RingTyped`),
  also when one has wrapped around and another has not: each handler is first an
  equation about places counted from `r` (`RingEnter`, `RingErase`, `RingRead`). A reader
  that wakes up in the middle of a request has not come to the end of a line, or what it gets next
  would be past it (`TermInv`). `InputSound` is inductive with that: a reader only sleeps
  when it has emptied the queue, whoever enters a line wakes every reader, and one that
  takes the bytes or puts an end of file back found some, so nobody slept.
- **`LogProofs`.** `Calls` relates the count of calls under way to the calls, and
  the blocks each has written to the log's header, and that a call in the middle of
  `log_write()` is there with one block of its share; `Stages` says what each step of
  the commit and of recovery finds done (copied up to `tail`, installed up to
  `tail`). `Reserved` alone would not survive a call that writes a block already
  logged: it counts, for each call, what it may still add, the block past the test
  included, and so the header's array has a place for it whatever the others add
  before the lock is taken (`LogAddIInv`). A panic leaves a changed block out of the log,
  but if `size` is more than LOGSIZE the log is full of all that anyone may write, so the block is
  in it (`LogWriteIInv`). `LogIsSound` holds for every `size` from LOGSIZE on, the one of
  `mkfs` included. `LogMakesDiskAtomic` has `size > LOGSIZE` as its hypothesis: only then
  is every block of `log.lh` the log's own (`InLog`). For
  it the durable disk is `home` overlaid with the logged blocks
  that a recovery would copy; every disk write except the header's leaves that
  unchanged, those of a recovery interrupted by another crash included.

  The rest of the module is about `Blocks`, whose calls are what the log's reservation
  is for. `BlocksExact` compares numbers of blocks and of addresses; `StoreInv` says what
  is behind them: an address is at one place of one inode (`OneSlot`), the bitmap is what
  addresses name, and a file has the blocks of its size (`SizesRight`), so that `bmap()`
  allocates exactly for the blocks a write is the first to reach. That `balloc()` finds
  free blocks and never one twice (`PlacedApart`) is a property of ranks in a set: the
  n-th free block in the order of the scan exists when there are n, by intervals and
  cardinalities. A write may place the indirect block and fill entries of it at once, so
  every address after it is one the file had or one just placed (`PutAddr`), and the two
  kinds are apart, which keeps the invariant (`PutKeeps`). `PutFits` is the count behind
  the arithmetic of `filewrite()`: the piece it cuts touches at most n = (MAXOPBLOCKS - 4) / 2
  blocks and one more, if it does not start on a border, and that one the file has already.
  So n blocks of data and the indirect one are at most new, each with a block of the
  bitmap, which with the block begun and the inode makes 2n + 4. A file's bytes after a write are the
  old ones outside of it and the new ones inside (`PutByte`), and those of every other
  file are untouched since no block is shared (`PutOther`): with them each step is one of
  `FileStore`, a truncation and a read included.
- **`BcacheProofs`.** The list is a permutation of the buffers and `OneBuffer`
  holds because `bget()` recycles only what nobody refers to. `Places` and
  `Holders` say who has which buffer with which block, `Contents` what the flags say
  of the data, `QueueSound` that a process in `iderw()` is in `idequeue` once. With
  them the block a holder sees is the store's, whether it is in a dirty buffer
  or on the disk, and `CacheImplementsStore` follows action by action.
- **`ProcProofs`.** `CpuInv` gives, for the place of the thread a CPU runs, what it
  has locked, its `ncli`, flag and `intena`; so `sched()` finds what it tests for.
  `Kept` says that what a thread put away when it switched is what its place calls
  for, which makes the flag its own. `StateInv` ties a process's state to its place
  and to being on a CPU: this is where the window between a process's becoming
  RUNNABLE or ZOMBIE and its leaving the CPU is covered, by `ptable.lock` that
  crosses the switch. `Embryos` says a slot that `fork()` fills is its own;
  `Family` that the parents are alive; `Sleepers` are the two wakeups. Each step
  either leaves state and family alone (one lemma covers these 17) or is shown to
  keep `OneCpu`, `StateInv` and `Family` on its own.

- **`FsProofs`.** Counts are sets: `ref` is the number of pairs of a process and a
  place in it that names the inode, `nlink` is compared with the number of pairs of a
  directory and a name. `RefsCounted` needs of `Places` only what each place of a call
  has in hand; each action then adds one element to the set of its inode, or takes one
  out, or moves it. `NamesHaveLinks` needs more. That names fit the links is not
  inductive, since `link()` counts before it writes the name and `unlink()` erases the
  name before it takes the link off: `Links` says that `nlink` also covers the calls
  between the two (`Linking`, `Losing`) and a link for each subdirectory. What a
  call read in an earlier step must still be so when it uses it: `Holding` says which
  lock a place keeps, `Coherent` that a valid cache entry is what the disk has, and
  `Entries` that what `create()` and `unlink()` found in the directory is still there,
  since they kept its lock. `Durable` is `Links` and the rest for the disk that a
  crash goes back to: with no call under way nothing is between a link and its name.
  `LocksAreExclusive` follows from `Holding` and `Coherent`, and `CountsAreSound` from the
  two counts. None of them asks that inodes are not freed in use, so they hold for all
  calls, those that end in the panic of section 3 included.

  `NothingFreedInUse` does ask something of the calls, `NoUpwards`: no path has `..` in
  it. Without that it is false, as section 3 shows; TLC evaluates it for the calls of run
  `fs`. Its invariant `UInv` stands on `IInv`. `iput()` frees what has no link when `ref`
  is 1, so whoever uses an inode beyond the reference being dropped makes `ref` at least 2
  (`Used`, `Alone`, by `RefsCounted`). An inode in use but of no reference yet is what
  `dirlookup()` is about to return: it has a name in a directory that is locked, hence a
  link (`NamesHaveLinks`). `.` gives the directory itself (`DotsSelf`, and `DotsLast` after a
  crash), except in one that `mkdir()` is making, and that is nobody else's (`Fresh`).
  Then `ilock()` always finds a type, and the only panic left is that of an `ialloc()`
  that finds no inode (`Stopped`).

  `CrashLeavesTree` has the same hypothesis and stands on both: its invariant `TInv` adds
  what `Links` leaves open. `Links` says a directory has links enough, `Full` that it
  has none too many, so that `nlink` is exact; `Shape` that a directory has one name, that
  its `..` goes back to where this name is, and that the root has none. `create()` keeps
  `Shape` because the inode it names has no link, and so no name and no subdirectory
  (`Unnamed`); `link()` because it refuses a directory; `unlink()` takes the one name
  away, and `Losing` is the link it has yet to take. `Shape` is of the whole disk, not
  of what the root reaches: a removed directory that somebody still works in is in it too,
  and is the reason for `NoUpwards` (its `..` may name what is gone, or what the
  inode has become since). That the tree is one then follows: what the root reaches
  is named by what the root reaches (`TreeIs`), a directory once (`NamedCounted`), and its
  subdirectories are as many as its names for them (`SubdirsCounted`).

All six refinements of section 3 are theorems. `Invariance` is the name of the theorem
that `IInv` always holds, in each of the modules.

Proofs rest on no axiom but the constants' assumptions and the library's
theorems on finite sets, sequences and well-founded orders (an inode, a buffer or a
slot "first in the list" is a least element).

Only model-checked:

- Liveness (`EveryoneRuns`, `SleepersWake`, `RequestServed`): fairness and ENABLED
  are beyond the prover.
- The parts of `parts` and `programs` other than the spin lock, the blocks, the console,
  the list allocator and the file table: `Boot`, `Kbd`, `Rtc`,
  `Vm`, `Umalloc`, `Shell` and the tests. The lengths
  of sequences of steps there are those of the bounds.
- What the recursive definitions of `Parser`, `Routines`, `Library` and `Loader`
  compute, and the folds: they would need induction over data with an operator as
  parameter, which the prover cannot instantiate. Bounded inputs only.

## 5. What is not modelled

- **Hardware in a straight line**: the boot sector and page table of `bootasm.S`
  and `entry.S`, `seginit()`, `switchuvm()`, the initialisation of the local and
  I/O APIC, PIC, UART and disk, the search for the mp table. They write registers
  in the order the manuals ask for; there is no state to relate.
- **Entry code**: `trapasm.S`, `vectors.pl`, `swtch.S`, `usys.S` save and restore
  registers. `Proc` has what `swtch` means.
- **Layout**: page table entries bit by bit, the byte order of the disk, the
  array of directory entries, buffers' bytes.
- **Within the modelled parts**: the disk's error status and `idewait()`, device
  files and `mknod()`, `sys_fstat()`, `consolewrite()`, the serial port, pids
  past 2^31, the length of a sleep. In `Vm`, the inode that `exec()` reads; its
  `begin_op()`/`iunlockput()` pairs are not in `Log`'s or `Fs`'s calls.
- **Composition**: the descriptors, the memory and the scheduling of a process
  are in `Files`, `Vm` and `Proc`, each with its own `fork()` and `exit()`; the
  three share no state but the process and are not composed.
- **Programs**: `echo`, `kill`, `ln`, `ls`, `mkdir`, `rm`, `cat` are a loop over
  their arguments with one call each. Of `usertests`, `mem` and the
  second half of `sbrktest` (they use up all memory, where `v2-sort` shares pages
  and `v1a` and `v1b` lose one with each), `bsstest` (the loader's
  zeroes), `pipe1` (see `Pipe`), `fsfull` (the disk's end is a panic) and
  `argptest` are left out. `test_1` to `test_4` call `dump_physmem()` and print.
- **Tools**: `Makefile`, `runoff`, `sign.pl`, `pr.pl`, linker script, debugger
  helpers, and two of the three copies of every file that does not differ.

## 6. Plan

Done: every component with state of its own has a module; the allocators, the
spin lock, pipes, console, file table, log, blocks, buffer cache, process table and inode
cache are proved, with the six abstract specifications they implement.

Next:

1. `Fs` over `Blocks`: directories as files of entries, so that a call's share
   of the log is counted for the calls about names too.
2. `exec()` with its inode, and `fork()` of `Files`, `Vm` and `Proc` composed.
