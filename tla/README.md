# A TLA+ model of the os_lab kernel

The repository is xv6 for RISC-V with laboratory additions: a kernel heap
(`kernel/dalloc.c`), a system call that exercises it (`kernel/memtest.c`) and a
system call that counts processes (`getprocs` in `kernel/proc.c`).  This
directory models the kernel, the file system tools and the user programs that
have something to get wrong, checks small instances with TLC, and proves
central results with TLAPS.

    tlc -workers 2 -config MCSync.cfg MCSync    # one run, two or three minutes
    tlapm LogProofs.tla                         # proofs; 2 to 10 minutes for each module

`PROJECT.json` lists the runs, the source lines each definition models, a
mutant for every property, the findings and the hazards.

## 1. The parts and their modules

| part | module | what is hard about it |
|---|---|---|
| write-ahead log, `log.c` | `Log`, `AtomicDisk` | a crash at any block write, groups of concurrent calls, log space |
| buffer cache, `bio.c`, `sleeplock.c` | `Bcache`, `DiskOps` | one buffer per block, recycling, reference counts |
| disk driver, `virtio_disk.c` | `VirtioDisk`, `DiskOps` | descriptors run out, completions out of order, interrupts that stand for several |
| inode table, directories, path calls, `fs.c`, `sysfile.c` | `FsCalls` | the last `iput` against a lookup, undo, two locks at a time, crashes |
| contents of files, `fs.c`, `file.c` | `Inode` | a full disk in the middle of a write, the direct/indirect boundary, transaction size |
| file table and descriptors, `file.c`, `sysfile.c` | `Ftable` | last close, failures half way through `pipe`, `dup`, `fork` |
| pipes, `pipe.c` | `Pipe`, `ByteStream` | lost wakeups, counter wrap, freeing the page |
| console, `console.c` | `Console`, `Tty` | three indices that wrap, editing under a reader, end of file |
| UART, `uart.c` | `Uart` | two writers of one register, interrupts that restart the transmitter |
| process table, `proc.c` | `Proc` | several CPUs, stacks still in use, lost wakeups, orphans |
| traps, spin locks, clock, `trap.c`, `spinlock.c`, `sysproc.c` | `Trap` | nested interrupt masking that moves between CPUs, ticks that wrap |
| memory, `kalloc.c`, `vm.c`, `exec.c` | `Vm`, `CopyUser` | running out of pages half way, sizes that are not page aligned, copies across pages |
| kernel heap, `dalloc.c`, `memtest.c` | `Dalloc`, `Memtest` | splitting and merging, reinitialisation |
| strings, paths, numbers, `string.c`, `ulib.c`, `printf.c` | `Text` | overlapping copies, names that fill their field |
| user heap, `umalloc.c` | `Umalloc` | the circular list and its wrap |
| shell and init, `sh.c`, `init.c` | `ShParse`, `Shell` | who holds which pipe end; who waits for whom |
| grep, cat, echo | `Grep`, `Shell` | lines across reads |
| mkfs | `Mkfs` | the direct/indirect boundary, a full image |

The calls go down this table's upper half as in the code: `FsCalls` and `Inode`
stand on what `AtomicDisk` promises of the log, `Bcache` on what `DiskOps`
promises of the driver, `Ftable` on the reference counts of inodes and pipes.
`AtomicDisk`, `DiskOps`, `ByteStream` and `Tty` are abstract specifications, and
the runs show that `Log`, `VirtioDisk`, `Pipe` and `Console` implement them.

## 2. How the modules model the code

Locks are spin locks, so a critical section that does not sleep is one step.
Where a lock is held across steps that others can observe (`dmem.lock`,
`pi->lock`, `cons.lock`, `wait_lock`, `p->lock`, sleep locks) it is a variable.
`Trap` is the module that checks what this rests on.  A `panic()` that the code
can reach sets `panicked`, or is excluded by a property that says so.

**`Log`** is `kernel/log.c` with what it needs of `bio.c`.  The disk is `home`
(blocks in place), `lblk` (log blocks) and `hdr` (the header block); memory is
`cache`, `pins` and `log.lh`.  Each turn of the loops of `write_log` and
`install_trans` is a step (`phase`, `tail`), since each is a block write.  A
crash (`Crash`) loses memory; `CrashTorn` also leaves the block that was being
written in a state that is neither old nor new.  The header has 124 bytes, within
one sector, and its write is taken as atomic, as the comment at `log.c:99`
does.  `initlog` runs recovery, in which further crashes may fall.  `Modify`
stands for any code that changes a locked buffer and then calls `log_write`; the
obligation of callers to write at most `MAXOPBLOCKS` blocks is its guard (and
`WithinReservation` of `Inode` checks the largest caller).  **`AtomicDisk`** is
what the log promises: `mem`, what calls read, and `durable`, what a reboot
finds, which meet in the one step `Sync`, never while an operation is open.

**`Bcache`** has the list in its order of use, `refcnt`, `valid`, and the holder
of each buffer's sleep lock; `bget_Hit` and `bget_Miss` are its two searches.  A
process reads a block, may change what it holds, and writes it or pins it, as
the log does.  The disk below is **`DiskOps`**: a request, one atomic transfer,
a return.  **`VirtioDisk`** implements that with chains of three descriptors, the
two rings, and a device that takes and completes requests in any order while
the interrupt handler runs.

**`FsCalls`** has the inodes on disk (`din`), their table entries (`ref`, `valid`,
`lock`), and for each process its current directory, one descriptor, and where
it is in a call.  A stretch of a call under inode locks is a step; `iput` has
three, because it frees an inode outside `itable.lock`.  A directory is a map
from names to inode numbers; what bytes the names are is in `Text`.  A crash
falls between transactions, by `AtomicDisk`.  `lost` is history: the names that
were still in a directory when it was freed.

**`Inode`** moves the bytes of one block per step for `readi`, `writei` and
`itrunc`, with `balloc` failing when the disk is full; an indirect block is a
block that holds numbers.  A `copyin` that fails may have copied some bytes of
the block into its buffer, which is then not logged: `old` keeps what the disk
has, and `bget_Recycle` brings it back.  `wrote` counts the blocks one
transaction logs; `file` has for each byte the values that may be read there (one, unless
writes failed).

**`Ftable`** cuts `open`, `dup`, `pipe`, `close`, `fork` and `exit` at every
acquisition of `ftable.lock`.  An inode or device is its reference count, a pipe its two flags
and its page.

**`Pipe`** has readers and writers that share the ends of one pipe, are killed,
and close.  The counters `nread` and `nwrite` run modulo `UINT`, a small multiple
of `PIPESIZE` in place of 2^32.  **`ByteStream`** is a bounded FIFO of bytes with
two ends that close.

**`Console`** is `consoleintr` and `consoleread` over the ring with its indices
`r`, `w`, `e` modulo `UINT`; a `kill` can fall between the test of `killed()` and
`sleep()`.  **`Tty`** is a line being edited and a queue of
finished characters.  **`Uart`** splits reading the line status register from
writing the holding register, so that `uartstart` and the lock-free
`uartputc_sync` of the echo can both have seen an idle transmitter.

**`Proc`** is the process table with several CPUs: `fork`, `exit`, `wait`, `kill`,
`getprocs`, `yield` and `scheduler`, cut at every acquisition of `p->lock` and
`wait_lock`.  `atstart`, `cpu`, `scan` say where each CPU is; `pc`, `idx`, `loc`
and `ret` are the kernel stack of each process.  `swtch` is a step of its own,
so that a process that has set its state is still on its stack until then.

**`Trap`** gives each thread the list of primitive steps it has still to take
(acquire a lock, become SLEEPING, switch); an interrupt or a trap puts its steps
in front.  `noff`, `intena` and the interrupt flag belong to a CPU, as in the
code.  `killed()` takes `p->lock` wherever `usertrap` and `sys_sleep` call it, and
`sys_sleep` is the loop of the source, so that a wakeup leads back to its test.
Only timer interrupts are modelled.

**`Vm`** makes every `kalloc` and `kfree` a step of `fork`, `sbrk`, `exec`, `exit`
and `wait`, each of which may find no page.  A page table is the set of its
table pages and the map of its leaves.  **`CopyUser`** is `copyin`, `copyout`,
`copyinstr` and `fetchaddr` with addresses of a fixed width.

**`Dalloc`** keeps the headers inside the heap: `mem` maps an address to a
`struct dheader`, with unsigned arithmetic modulo `UINT`; each turn of a list
walk is a step.  `blocks` and `live` are history: the headers on the list, and
what each process was given.  **`Memtest`** runs the five tests of `memtest` on it,
with the bytes of the heap: strings and headers overwrite each other there.

**`Text`**, **`Umalloc`**, **`Grep`**, **`ShParse`** and **`Mkfs`** are sequential:
the loops of the source are recursive operators, compared with definitions of
what they should compute.  **`Shell`** runs parsed commands as processes with
descriptors; init's `fork` and `exec` may fail too, and a failed `fork` of init is
the end of the kernel (`Panicked`).

The `MC` modules hold the instances.  Components that share no state are
checked together: `Sync` (instantiated by `MCSync`), `MCDevices`, `MCFiles`, `MCUser`
and `MCLive` choose one component in `part` and let it use the variables `s1`,
`s2`, ... in the order in which its module declares them.  A property of such a
module is the component's property under the condition that `part` is that
component.  `Sync` leaves the components' constants open, so that it is what the
proofs of section 5 are about too.
Definitions whose comment starts with "Mutant" are variants with one error in
them; PROJECT.json says which property each must violate.


## 3. What the runs check

| run | states | what it shows |
|---|---|---|
| `log_safety` | 461,732 | `AtomicCommit` (the log implements `AtomicDisk`), `DurableWhenIdle`, `PinnedOnce`, `NobodyStranded` |
| `sync` | 773,400 | pipe, process table, kernel heap, buffer cache |
| `devices` | 581,272 | disk driver, console, UART |
| `files` | 1,016,692 | path calls, file contents (twice), file table, address spaces |
| `user` | 1,410,304 | strings, user heap, grep, shell parser, mkfs, user copies, memtest, heap under any client, traps and clock |
| `liveness` | 34,045 | log, pipe, processes, disk driver, UART, kernel heap, shell (twice), with fairness |

The other six runs show the findings of section 4.  Deadlock is checked in every
run.  A property of a run is often a conjunction of properties that the component's
module states one by one, with its `TypeOK`; those are in parentheses below.

**`sync`.**  *Pipe* (2 readers, 2 writers, all may be killed, a ring of two bytes
whose counters wrap): `IsByteStream`, that every step is one of the abstract
stream; `ExclusiveUse`, that the page is freed once and after its last user;
`WritersNotStranded`.  *Processes* (2 CPUs, 3 slots, pids to 4, so that slots
are reused): `OneCpuPerStack` (with `SchedChecks`: none of the panics of `sched`);
`NoMissedZombie` (with `ParentsAlive`); `GetprocsExact` (the count lies between the
numbers of active processes at the start and at the end of the call).  *Heap* (2 threads, sizes 0, 1,
4, 5 in a heap of 12, room for three blocks: a middle one has two neighbours to
merge): `HeapTiled` (`BlocksTileHeap`, `OwnersKeepBlocks`, `Coalesced`,
`AllFreeIsWhole`) and `NullOnlyWhenFull`.  *Buffers* (2 processes, 3 blocks, 2
buffers, so that buffers are recycled and may run out): `CacheCoherent`
(`OneBufferPerBlock`, `HoldersSeeCurrent`, `ChangesNotLost`) and `BufferRefsExact`.

**`devices`.**  *Disk* (3 processes, 7 descriptors: two requests fit, the third
waits with one descriptor left over): `RwIsAtomic`, that the driver implements
`DiskOps`; `DescriptorsConserved` (with `DoneMeansTransferred`).  *Console* (2
readers, a ring of 3, indices modulo 6): `LineDiscipline`, that it implements
`Tty` and that an end of file is kept for the next read (`EofKept`).  *UART* (2
writers of 3 bytes, a ring of 2): `BytesInOrder`.  `IoNotStranded` says that nobody
is left asleep in either (`ReadersNotStranded` of `Console`, `WritersNotStranded` and
`TransmitterNotForgotten` of `Uart`).  The FIFO has at least as many places as there
are writers of the register at a time (a thread in `uartstart` and the echo);
with one place `BytesInOrder` fails, and its mutant is that.

**`files`.**  *Path calls* (2 processes, one name in the root and another below
it, 3 inodes so that `ialloc` may fail, one crash): `FsNeverPanics` (with
`IputWontBlock`, the claim of the comment at `fs.c:344`), and no deadlock among the
inode locks, which is TLC's own check; `CrashSound`, that what a crash leaves is a
tree: every link count is exactly the number of names (of a directory: its name,
and the `..` of its subdirectories), every name leads to an allocated inode, and
linked directories have `.` and `..`.  What is excepted is an unlinked inode that
was open, and the link that went when a directory was freed with a name in it
(`lost`, section 4).  *File table* (2 processes, 3 files, 2 descriptors each, 1
page for a pipe).  `ReferencesExact` covers both: inodes (`RefsExact`), files
(`FilesCounted`, `InodeRefsOwned`) and pipes (`PipesFreedOnce`).  *Contents* (2
processes, 2 inodes, 3 blocks of 2 bytes, so that the disk fills up; 1 direct and 2
indirect entries): `ContentsRight` (with `ReadsRight`, against the bytes written,
and `BlocksOwnedOnce`, `NothingLeaks`).  *A big file* (1 process, 5 blocks, 2 direct
and 2 indirect entries, so that the file reaches its limit, and a read whose length
wraps) with `MAXOPBLOCKS` 6: `WithinReservation`, and `ContentsRight` again.  *Memory* (2 processes, 17 pages, 3 entries per table page, 3
levels): `PagesConserved` (with `ImageMatchesSize` and `NeverPanics`).

**`user`.**  `TextExact`: strings, over every memory of 6 bytes with 4 character
codes.  `ChunksDontMatter`: `grep` over patterns of up to 3 characters and texts of up
to 4, with reads that cut anywhere.  `TreeIsTheGrammars`: the parser over every line
of up to 5 characters of the shell's alphabet, with a grammar that is stated as
sets of parse trees.  `ImageReadsBack`: mkfs over lists of up to 3 files with sizes
around each boundary.  `UserHeapExact`: `malloc` over a heap of 9 units.
`UserCopiesExact`: the copies over all addresses of a space of 4 pages.  `TestsPass`:
memtest on the heap of `dalloc` (no test fails, and no string reaches into a header
on the list), and the heap under any client that frees what it was given.  `NoffCountsLocks`, `InterruptsComeBack`, `SleepsLongEnough`: `Trap` with 2
CPUs, one process that sleeps and one that may kill it, a lock each, `ticks`
modulo 3 and sleeps of 2 ticks, so that sleeps cross the wrap and the first wakeup
comes too early.  Two CPUs and a thread that
moves from one to the other are what `InterruptsComeBack` is about.

**`liveness`.**  `WaitersServed`: a process asleep in `begin_op` or in a pipe is
woken, a runnable process runs.  `CallsReturn`: `virtio_disk_rw` returns, bytes
for the UART leave, walks of the heap end, the shell's prompt comes back.
`WorkCompletes`: commits and recoveries finish, zombies left to init are
collected, and all that the typed commands started is gone.  `ProgramsSeeThree` (a
program starts with descriptors 0, 1, 2 and no pipe end besides) is the
invariant behind the last.  The modules state the same formulas one by one
(`SleepersWake`, `OrphansReaped`, `PromptReturns`, ...); `MCLive` numbers the things
waited for in each part, so that one leads-to formula serves all parts.

Fairness.  Interrupt-driven scheduling runs every runnable process, so steps
inside the kernel are weakly fair; a process that must win a spin lock, or be
chosen by a scheduler, needs strong fairness, which the code gives in practice
but not by construction (the locks are not queues).  `Log` assumes that a
system call makes finitely many updates before `end_op`.  Disk and UART complete
what they were given, and an interrupt that is up is delivered; the console is
typed at finitely often (`MaxInput`): input without end could keep the handler
from restarting the output.  `Proc` assumes that init keeps calling `wait`, which
`Shell` checks of `user/init.c`.

Bounds on counters: `MaxPid` in `fork`, `MaxCrash`, `MaxPins`, `MaxInput`,
`MaxCmds` (lines typed) and `MaxFaults` (forks, pipes and init's `exec` that fail).
Pids are reused and two lines follow each other; a failure happens once, in each
place where one is possible, two failures in one run of the shell are not covered.

## 4. Findings

Each is a run in which TLC finds the code to do something a comment or an
assertion of the source excludes.

* `log_space` (`log.c:220`).  `begin_op` counts against `LOGSIZE` data blocks;
  mkfs makes the whole log, header included, `LOGSIZE` blocks long.  Operations
  that each write what they reserved can hit `panic("too big a transaction")`.
  The calls in this tree write fewer than `MAXOPBLOCKS` blocks, which is why the
  missing block is not noticed.
* `dalloc_race` (`memtest.c:227`).  `dinit` runs again on each `memtest`, without
  exclusion: two concurrent `alloctest` programs stop the kernel.
* `pipe_kill` (`pipe.c:84`).  A killed writer returns without waking the readers
  of what it has already written.
* `proc_kill_zero` (`proc.c:602`).  `kill(0)` matches an unused slot and the next
  process in it is born killed.
* `fs_iput_race` (`fs.c:360`).  `iput` frees an inode and then drops its reference
  without testing again.  If the number is allocated again in between, and that
  file is unlinked and put before the first `iput` ends, nobody frees it.
* `fs_dotdot` (`fs.c:315`).  A process in a removed directory whose parent is
  removed after it looks up `..` and locks a free inode: `panic("ilock: no type")`.

Observations made on the way that have no run:

* `kill` between the test of `killed` at `proc.c:437` and `sleep` leaves its victim
  asleep until something else wakes it.
* `bget` panics when all buffers are in use or pinned (`bio.c:88`); `NBUF` equals
  `LOGSIZE`, so a full log leaves no buffer over.
* `dalloc` compares the size of a block's data with a size that includes a header
  (`dalloc.c:82`), so a hole is not reused for a request of exactly its size:
  `NullOnlyWhenFull` states what it does guarantee.  `size + HEADER_SIZE` wraps
  for sizes next to 2^32 (`dalloc.c:70`), which no caller uses.
* A comment says that `random_test` asks for "between 1 and 1000" bytes
  (`memtest.c:97`); the code asks for up to 32768.  `overwrite_test` uses what
  `dalloc` returns unseen (`memtest.c:197`); `TestsPass` shows the heap is whole by then.
* A crash leaves the inode of an open, unlinked file allocated for ever
  (`CrashSound` excepts it): there is no scan for such inodes at boot.
* `writei` that fails in `copyin` leaves a partial copy in a cached block that it
  does not log (`fs.c:522`): later reads see it until the buffer is recycled, and
  what the disk had after that.  `ContentsRight` allows both, and nothing else.
* A file made in a directory that is removed while it is made keeps a link count
  of 1 without a name: `iput` frees the directory with the entry in it.
* `kill` between `killed` and `sleep` in `consoleread` or `sys_sleep` is noticed at
  the next line or tick only.
* `filewrite` counts one bitmap block per piece (`file.c:149`), which holds while the
  file system is smaller than one bitmap block covers.
* A failed `sbrk` or `exec` keeps the table pages it added until the process exits.
  `exec` fails for a program whose first segment is empty.
* `sys_sleep` with a negative argument waits for almost 2^32 ticks (`sysproc.c:60`),
  and `read` with one returns 0 unless the offset is 0, where it reads all (`fs.c:477`).
* grep drops the rest of a file after a line longer than its buffer, and a last
  line without newline; the shell reads `a & b` as a syntax error and lets the
  first of several redirections of one descriptor win; `print_int` of proctest
  has no negative numbers; init ends, and with it the kernel, when its `fork`
  fails.
* mkfs rounds the root directory up by a whole block when it is already full
  (`mkfs.c:166`), and does not compare the number of files with `NINODES`.

## 5. What is proved

**The log** (`LogProofs`).  The constants are arbitrary: any finite
set of operations, any blocks and values, any `MAXOPBLOCKS <= LOGSIZE`, any
on-disk log of at least one block.

* `LogProofs!LogIsAtomic`: `Spec => AtomicCommit`.
* `LogProofs!TypeCorrect`, `PinnedOnceHolds`, `NobodyStrandedHolds`,
  `DurableWhenIdleHolds`.

None of these is inductive by itself.  The invariant `Inv` adds

* `ModesOK`: what a reboot leaves of memory, and `committing` against `phase`;
* `OpsOK`: `outstanding` is the number of open operations, only an open
  operation holds a buffer, at most one process commits, and while it does no
  operation is open;
* `LogOK`: the two headers name a block once; they agree during installation, and
  the one on disk is empty at all other times when the system is up;
* `DataOK`: the log blocks that the header on disk names are intact, a torn home
  block is always in the log, what `write_log` and `install_trans` have copied
  is what the cache holds, and a dirty block is in the cache.

There is one lemma per action.  The refinement then follows step by step:
`write_head` is the step `Sync` of `AtomicDisk` because every logged block equals its
cached copy and every other block equals its home copy (`WriteHeadRefines`); installing or tearing a
block is invisible because recovery reads the log (`HomeNotRead`); writing or tearing a
log block is invisible because the header is empty (`LogNotRead`).  TLC has
checked `Inv` on the instance of `log_safety`.

**Pipe, heap, process table, buffer cache.**  `PipeProofs`, `DallocProofs`,
`ProcProofs` and `BcacheProofs` prove each component's properties from an inductive
invariant `Inv`: `InitInv`, one lemma per action, `StepInv`, and a lemma that derives
the properties.  The process table takes three modules: `ProcSteps` has the
invariant, the scheduler and `fork`; `ProcExit` has `exit` and `wait`; `ProcProofs` has
`kill`, `getprocs` and the theorems.  `SyncProofs` carries the results over to the
properties of `Sync`, the ones the run `sync` checks: a step of `Sync` is a step of
the component that `part` selects.  (`Pipe!Next`, of `Sync`, and `PipeP!Next`, of the
instance of `PipeProofs`, are the same formula under two names; the lemmas called
`...Same` say so.)  The theorems are `...Holds`, one for each property of the run.
The constants are arbitrary within `SyncConstants`:

* `PipeConstants`: `PIPESIZE` divides `UINT` and is smaller, as 512 and 2^32 are.
* `ProcConstants`: at least one CPU and one slot.
* `BcacheConstants`: finitely many processes and buffers; `None` is neither of
  these nor a block.  Nothing is assumed of how many buffers there are.
* `DallocConstants`: heap, header, start and `UINT` are multiples of the alignment,
  and the heap is smaller than `UINT`.  `SizesFit`: no request is so close to 2^32
  that adding a header wraps.  `memtest.c` asks for at most `HEAP_SIZE`; without
  `SizesFit` the theorem is false (section 4).

What the invariants add, and why the properties alone are not inductive:

* *Pipe.*  Who is inside holds the lock (`LockOK`); whoever is about to call
  `pipeclose` is the last of its end (`LastCloses`), so an end that someone still
  has is open (`EndsOK`); a writer asleep beside a pipe with room has a reader in
  its copy loop that will wake it (`WritersOK`); the counters are at most
  `PIPESIZE` apart modulo `UINT` (`FillOK`).  The refinement rests on lemmas about
  remainders: slots of counters less than `PIPESIZE` apart differ, also when one of
  them has wrapped, because `PIPESIZE` divides `UINT`.
* *Heap.*  The list tiles the heap also in the middle of a call (`HeapOK`), used blocks
  are exactly the owned ones and the one being freed (`LiveOK`, `UsedOK`), what
  `dalloc` has walked past does not suit (`SearchOK`), the block `dfree` looks for is
  ahead of it (`FindOK`), and what `coalesce_blocks` has passed is merged
  (`JoinOK`).  That a free list is the one block of `dinit` follows without
  induction: the block at the start has no free successor.
* *Process table.*  A CPU is on a stack exactly while its process is between being
  chosen and `swtch` (`StackOK`, `PlockOK`, `WaitLockOK`); the slot that `fork` fills is
  its own (`ForkOK`); a process that exits has given away the children it has walked
  past (`ReparentOK`); the children `wait` has looked at are not zombies (`ScanOK`);
  a parent that `wakeup` has passed is not asleep (`WokenOK`), and one that is
  asleep beside a zombie has a `wakeup` still on its way (`MissedOK`: `reparent` hands
  zombies to init one by one, and wakes it after each); the count of `getprocs` so
  far against the slots before and after it (`CountOK`, kept apart from `Inv` in
  `CountInv` because it alone needs cardinalities).  Most steps move one CPU and
  leave the rest of the table alone: the lemmas `...Kept` say which conjunct survives
  which frame, and `LocalStep` and `QuietStep` put them together.
* *Buffer cache.*  A valid buffer has what the last holder left (`ValidOK`); a block
  that differs on disk is in a valid buffer that is pinned or that its holder has
  still to write (`ChangesOK`), so a buffer with `refcnt` 0 holds no change and may be
  recycled; `refcnt` counts users and pin (`RefsOK`), so that with `refcnt` 0 nobody
  uses or waits for it; every buffer is on the list (`ListOK`), so that a
  panic of `bget` means that all are in use (`PanicOK`, by counting).

TLC has checked the four invariants (`PipeInv`, `DallocInv`, `ProcInv` and `BcacheInv` of
`SyncProofs`) on the instance of `sync`.

Only model-checked: liveness everywhere (it needs fairness and ENABLED, beyond the
prover); what `Text`, `Umalloc`, `Grep`, `ShParse`, `Mkfs` and `CopyUser` compute (their
loops are recursive operators, and induction over data is beyond the prover);
and the properties of the other components: `BytesInOrder` compares sequences filtered
by writer, the sums of references and pages in `Ftable`, `Vm` and `Inode` and the
code sequences of `Trap` need induction over data, and `VirtioDisk` frees a chain of
descriptors with a recursive operator.  `FsCalls` (`FsNeverPanics`, `CrashSound`) has
had no proof attempt.

## 6. Not modelled

* Boot (`entry.S`, `start.c`, `main.c`), `plic.c`, and the mapping of the kernel
  itself (`kvmmake`): straight-line code that sets up hardware once.
* `swtch.S`, `trampoline.S`, `kernelvec.S`: that every register is saved and restored is
  a matter of the instruction set.  That the right stack is switched to is in
  `Proc` and `Trap`.
* `ramdisk.c` is not linked.  `printf.c` is modelled for numbers (`Text`); its other
  formats and its lock are not, nor is the kernel's `printf` as one more writer of
  the UART (it uses `uartputc_sync`, as the echo of `Uart` does).
* In `Trap`, the panics of `kerneltrap` for unexpected causes, and interrupts of devices.
* `morecore` passes `nu * sizeof(Header)` to `sbrk(int)`: `Umalloc` has no sizes near 2^31.
* mkfs may round the root directory up over a block that does not exist: `Mkfs` reads
  zeros there, without the block that `bmap` allocates when the kernel looks at it.
* `exec`'s reading of ELF headers is the sizes of the segments (`Vm`); the layout of
  the argument block on the stack is not modelled.
* `ls`, `wc`, `rm`, `mkdir`, `ln`, `kill`, `zombie` are one system call each in a loop.
  `usertests`, `grind`, `forktest` and `stressfs` are test programs for the
  calls modelled here.
* `nextpid` overflows after 2^31 processes, out of reach of an instance.  Nobody kills
  init in the models (`exit` would panic, "init exiting", by design).
* `Inode` and `FsCalls` meet only in the reference counts and in `dirlink` failing:
  directories whose contents span several blocks are not modelled.
